---- MODULE Spec2Model ----
(***************************************************************************)
(* Host-side SecureBoot and Verify command families of CryptoAuthLib       *)
(* (lib/calib/calib_secureboot.c, lib/calib/calib_verify.c).               *)
(*                                                                         *)
(* Under Spec one caller drives one Device Context; under ConcSpec a       *)
(* second caller shares it.  A call of a single-command                    *)
(* function (calib_secureboot, calib_verify, the tempkey / validate /      *)
(* invalidate wrappers) is one action.  The orchestrations that issue      *)
(* several device commands (calib_secureboot_mac, the MAC-qualified        *)
(* verify, calib_verify_extern, calib_verify_stored) advance one step per  *)
(* action, pc holding the position inside the function.  The packet        *)
(* allocator, the packet builders, the command executor, the device and    *)
(* the host hash engine are the environment: their answers are drawn with  *)
(* \E in the step that consults them.                                      *)
(***************************************************************************)
EXTENDS Integers, Sequences, FiniteSets, TLC

VARIABLES
    maxPacket,    \* CA_MAX_PACKET_SIZE of this build
    devtype,      \* device->mIface.mIfaceCFG->devtype
    pc,           \* position of the caller: "idle", a step of the running call, "done"
    fn,           \* entry point of the running / last call
    args,         \* arguments of the running / last call
    loc,          \* stack locals of the running / last call
    is_verified,  \* the caller's bool the is_verified pointer refers to
                  \* (args.iv_before is the value it held when the call began)
    callerMac,    \* the caller's buffer the mac pointer refers to
    ret,          \* status returned by the last call ("none" while one runs)
    log,          \* steps the running / last call has performed, in order
    cmds,         \* commands handed to atca_execute_command by this call
    sentPkt,      \* last packet handed to atca_execute_command by this call
    allocs,       \* packets obtained from calib_packet_alloc by this call
    frees,        \* packets given back to calib_packet_free by this call
    allocFails,   \* calls of calib_packet_alloc by this call that returned NULL
    overrun,      \* a memcpy of this call wrote past the packet's payload area
    devBuf,       \* the device's TempKey and Message Digest Buffer as loaded
    peer,         \* a second caller's call on the same Device Context
    serialized    \* the application lets one call at a time use the Device Context

vars == <<maxPacket, devtype, pc, fn, args, loc, is_verified,
          callerMac, ret, log, cmds, sentPkt, allocs, frees, allocFails, overrun,
          devBuf, peer, serialized>>

-----------------------------------------------------------------------------
(* Bound of the model: number of distinct test vectors per environment     *)
(* input (device random numbers, tampered MAC positions).                  *)
MaxVec == 2

-----------------------------------------------------------------------------
(* Status codes (ATCA_STATUS).                                             *)
ATCA_SUCCESS == "ATCA_SUCCESS"
ATCA_CHECKMAC_VERIFY_FAILED == "ATCA_CHECKMAC_VERIFY_FAILED"
ATCA_BAD_PARAM == "ATCA_BAD_PARAM"
ATCA_INVALID_SIZE == "ATCA_INVALID_SIZE"
ATCA_ALLOC_FAILURE == "ATCA_ALLOC_FAILURE"
ATCA_COMM_FAIL == "ATCA_COMM_FAIL"
UNSET == "UNSET"         \* a status variable not yet assigned

(* Sizes and indices of the command set.                                   *)
ATCA_CMD_SIZE_MIN == 7
ATCA_PACKET_OVERHEAD == 3
ATCA_COUNT_IDX == 0
ATCA_RSP_DATA_IDX == 1
ATCA_RSP_SIZE_MIN == 4
ATCA_KEY_SIZE == 32
ATCA_SIG_SIZE == 64
ATCA_PUB_KEY_SIZE == 64
MAC_SIZE == 32
RANDOM_NUM_SIZE == 32
NONCE_NUMIN_SIZE == 20
VERIFY_OTHER_DATA_SIZE == 19
SECUREBOOT_DIGEST_SIZE == 32
SECUREBOOT_SIGNATURE_SIZE == 64
SECUREBOOT_MAC_SIZE == 32
SECUREBOOT_RSP_SIZE_MAC == ATCA_PACKET_OVERHEAD + SECUREBOOT_MAC_SIZE

(* Mode bytes.                                                             *)
SECUREBOOT_MODE_MASK == 7
SECUREBOOT_MODE_FULL == 5
SECUREBOOT_MODE_FULL_STORE == 6
SECUREBOOT_MODE_FULL_COPY == 7
SECUREBOOT_MODE_ENC_MAC_FLAG == 128
VERIFY_MODE_MASK == 7
VERIFY_MODE_STORED == 0
VERIFY_MODE_VALIDATE_EXTERNAL == 1
VERIFY_MODE_EXTERNAL == 2
VERIFY_MODE_VALIDATE == 3
VERIFY_MODE_INVALIDATE == 7
VERIFY_MODE_SOURCE_TEMPKEY == 0
VERIFY_MODE_SOURCE_MSGDIGBUF == 32
VERIFY_MODE_MAC_FLAG == 128
VERIFY_KEY_P256 == 4
NONCE_MODE_SEED_UPDATE == 0
NONCE_MODE_TARGET_TEMPKEY == 0
NONCE_MODE_TARGET_MSGDIGBUF == 64

(* Device variants.                                                        *)
ATECC508A == "ATECC508A"
ATECC608 == "ATECC608"

-----------------------------------------------------------------------------
(* Bytes, buffers and pointers.  A buffer is a sequence of bytes; C index  *)
(* i is sequence index i + 1.  A null pointer is the empty sequence.       *)
NULL == <<>>
PTR == <<"ptr">>          \* a valid pointer to a caller-owned object
UNINIT == <<-1>>          \* a stack buffer no statement has written yet

Bytes(n, b) == [i \in 1..n |-> b % 256]

Ramp(n, b) == [i \in 1..n |-> (b + i) % 256]

RECURSIVE BitAnd(_, _)
BitAnd(x, y) ==
    IF x = 0 \/ y = 0 THEN 0
    ELSE (IF x % 2 = 1 /\ y % 2 = 1 THEN 1 ELSE 0) + 2 * BitAnd(x \div 2, y \div 2)

RECURSIVE BitOr(_, _)
BitOr(x, y) ==
    IF x = 0 THEN y
    ELSE IF y = 0 THEN x
    ELSE (IF x % 2 = 1 \/ y % 2 = 1 THEN 1 ELSE 0) + 2 * BitOr(x \div 2, y \div 2)

RECURSIVE BitXor(_, _)
BitXor(x, y) ==
    IF x = 0 THEN y
    ELSE IF y = 0 THEN x
    ELSE (IF x % 2 # y % 2 THEN 1 ELSE 0) + 2 * BitXor(x \div 2, y \div 2)

(* memset(dst, 0, n) of a fresh buffer.                                    *)
Zeros(n) == [i \in 1..n |-> 0]

(* The byte a read at C index i - 1 of src delivers; outside the object    *)
(* (a null or too short source) the read is undefined and delivers garbage. *)
ByteAt(src, i) == IF i \in DOMAIN src THEN src[i] ELSE -1

(* memcpy(&dst[off], src, n): the bytes that land inside dst.              *)
memcpy(dst, off, src, n) ==
    [i \in 1..Len(dst) |-> IF i > off /\ i <= off + n THEN ByteAt(src, i - off) ELSE dst[i]]

(* memcmp(a, b, n): 0 when the first n bytes agree, otherwise the sign of  *)
(* the first differing pair.                                               *)
memcmp(a, b, n) ==
    LET diff == {i \in 1..n : a[i] # b[i]}
    IN IF diff = {} THEN 0
       ELSE LET k == CHOOSE i \in diff : \A j \in diff : i <= j
            IN IF a[k] < b[k] THEN -1 ELSE 1

Sum(s) ==
    LET RECURSIVE Acc(_)
        Acc(i) == IF i = 0 THEN 0 ELSE (s[i] + Acc(i - 1)) % 256
    IN Acc(Len(s))

-----------------------------------------------------------------------------
(* Command packets.  data is the payload area; the response of the device  *)
(* is written back over its start (count byte first).                      *)
PayloadCap == maxPacket - ATCA_CMD_SIZE_MIN

NoPacket == [opcode |-> "none", param1 |-> 0, param2 |-> 0, txsize |-> 0, data |-> <<>>]

(* memset(packet, 0x00, sizeof(ATCAPacket)).                               *)
ZeroPacket == [opcode |-> "none", param1 |-> 0, param2 |-> 0, txsize |-> 0,
               data |-> Zeros(PayloadCap)]

(* atSecureBoot: sets opcode and transmit size from the mode.              *)
atSecureBoot(packet) ==
    LET m == BitAnd(packet.param1, SECUREBOOT_MODE_MASK)
    IN IF m \in {SECUREBOOT_MODE_FULL, SECUREBOOT_MODE_FULL_COPY}
       THEN [status |-> ATCA_SUCCESS,
             packet |-> [packet EXCEPT !.opcode = "SecureBoot",
                           !.txsize = ATCA_CMD_SIZE_MIN + SECUREBOOT_DIGEST_SIZE
                                      + SECUREBOOT_SIGNATURE_SIZE]]
       ELSE IF m = SECUREBOOT_MODE_FULL_STORE
       THEN [status |-> ATCA_SUCCESS,
             packet |-> [packet EXCEPT !.opcode = "SecureBoot",
                           !.txsize = ATCA_CMD_SIZE_MIN + SECUREBOOT_DIGEST_SIZE]]
       ELSE [status |-> ATCA_BAD_PARAM,
             packet |-> [packet EXCEPT !.opcode = "SecureBoot"]]

(* atVerify: sets opcode and transmit size from the mode.                  *)
atVerify(packet) ==
    LET m == BitAnd(packet.param1, VERIFY_MODE_MASK)
    IN IF m = VERIFY_MODE_STORED
       THEN [status |-> ATCA_SUCCESS,
             packet |-> [packet EXCEPT !.opcode = "Verify",
                           !.txsize = ATCA_CMD_SIZE_MIN + ATCA_SIG_SIZE]]
       ELSE IF m \in {VERIFY_MODE_VALIDATE_EXTERNAL, VERIFY_MODE_EXTERNAL}
       THEN [status |-> ATCA_SUCCESS,
             packet |-> [packet EXCEPT !.opcode = "Verify",
                           !.txsize = ATCA_CMD_SIZE_MIN + ATCA_SIG_SIZE + ATCA_PUB_KEY_SIZE]]
       ELSE IF m \in {VERIFY_MODE_VALIDATE, VERIFY_MODE_INVALIDATE}
       THEN [status |-> ATCA_SUCCESS,
             packet |-> [packet EXCEPT !.opcode = "Verify",
                           !.txsize = ATCA_CMD_SIZE_MIN + ATCA_SIG_SIZE
                                      + VERIFY_OTHER_DATA_SIZE]]
       ELSE [status |-> ATCA_BAD_PARAM,
             packet |-> [packet EXCEPT !.opcode = "Verify"]]

(* atca_execute_command on success: the response overwrites the start of   *)
(* the packet's data.                                                      *)
WriteResponse(packet, rsp) ==
    [packet EXCEPT !.data = memcpy(packet.data, 0, rsp, Len(rsp))]

-----------------------------------------------------------------------------
(* Host hash engine (host/atca_host.c): deterministic functions of their   *)
(* inputs, sensitive to each of them.                                      *)
atcah_nonce(mode, num_in, rand_out) ==
    [i \in 1..ATCA_KEY_SIZE |->
        (rand_out[i] + 3 * num_in[((i - 1) % NONCE_NUMIN_SIZE) + 1] + mode + 22) % 256]

HashedKey(io_key, tempkey) ==
    [i \in 1..ATCA_KEY_SIZE |-> (io_key[i] + 5 * tempkey[i] + i) % 256]

DigestEnc(digest, hashed_key) ==
    [i \in 1..SECUREBOOT_DIGEST_SIZE |-> BitXor(digest[i], hashed_key[i])]

atcah_secureboot_mac(mode, param2, hashed_key, digest, signature, secure_boot_config) ==
    LET sig == IF signature = NULL THEN 0 ELSE Sum(signature)
    IN [i \in 1..SECUREBOOT_MAC_SIZE |->
          (hashed_key[i] + 2 * digest[i] + sig + mode + param2
           + 7 * (secure_boot_config % 256) + 11 * (secure_boot_config \div 256)) % 256]

atcah_verify_mac(mode, key_id, signature, msg_dig_buf, io_key) ==
    [i \in 1..MAC_SIZE |->
        (io_key[i] + msg_dig_buf[i] + 3 * msg_dig_buf[32 + i] + Sum(signature)
         + mode + key_id) % 256]

-----------------------------------------------------------------------------
(* Result of one call of calib_secureboot / calib_verify: the returned     *)
(* status, the content of the buffer behind the mac pointer afterwards,    *)
(* and what the call did with the allocator and the executor.              *)
(* Mutant: a command the executor failed is handed to it a second time.   *)
CallResult_retry(status, macval, nalloc, nfree, nnull, sent, pkt, ovr) ==
    [status |-> status, mac |-> macval, allocs |-> nalloc, frees |-> nfree,
     cmds |-> IF status # ATCA_SUCCESS THEN sent \o sent ELSE sent,
     pkt |-> pkt, overrun |-> ovr, allocFails |-> nnull]

(* Mutant: an error path returns without releasing the packet.            *)
CallResult_leak(status, macval, nalloc, nfree, nnull, sent, pkt, ovr) ==
    [status |-> status, mac |-> macval, allocs |-> nalloc,
     frees |-> IF status = ATCA_SUCCESS THEN nfree ELSE 0,
     cmds |-> sent, pkt |-> pkt, overrun |-> ovr, allocFails |-> nnull]

CallResult(status, macval, nalloc, nfree, nnull, sent, pkt, ovr) ==
    [status |-> status, mac |-> macval, allocs |-> nalloc, frees |-> nfree,
     cmds |-> sent, pkt |-> pkt, overrun |-> ovr, allocFails |-> nnull]

(* #if (CA_MAX_PACKET_SIZE < (ATCA_CMD_SIZE_MIN + SECUREBOOT_DIGEST_SIZE + *)
(* SECUREBOOT_SIGNATURE_SIZE))                                              *)
SecureBootTooSmall ==
    maxPacket < ATCA_CMD_SIZE_MIN + SECUREBOOT_DIGEST_SIZE + SECUREBOOT_SIGNATURE_SIZE

(* #if (CA_MAX_PACKET_SIZE < (ATCA_CMD_SIZE_MIN + ATCA_SIG_SIZE +          *)
(* ATCA_PUB_KEY_SIZE))                                                      *)
VerifyExternalTooSmall ==
    maxPacket < ATCA_CMD_SIZE_MIN + ATCA_SIG_SIZE + ATCA_PUB_KEY_SIZE

(* #if (CA_MAX_PACKET_SIZE < (ATCA_CMD_SIZE_MIN + ATCA_SIG_SIZE +          *)
(* VERIFY_OTHER_DATA_SIZE))                                                 *)
VerifyValidateTooSmall ==
    maxPacket < ATCA_CMD_SIZE_MIN + ATCA_SIG_SIZE + VERIFY_OTHER_DATA_SIZE

(* Mutant: the allocation failure leaves status as it was.                 *)
AllocFailStatus_kept(status) == status

(* status = ATCA_ALLOC_FAILURE when calib_packet_alloc returned NULL;       *)
(* calib_packet_free is then called with that null pointer.                *)
AllocFailStatus(status) == ATCA_ALLOC_FAILURE

(* Mutant: the MAC is copied out whatever the response count says.        *)
SecureBootCopyMac_nocount(macptr, macval, packet) ==
    IF macptr # NULL
    THEN SubSeq(packet.data, ATCA_RSP_DATA_IDX + 1, ATCA_RSP_DATA_IDX + SECUREBOOT_MAC_SIZE)
    ELSE macval

(* The copy-out of the validating MAC after a successful SecureBoot.       *)
SecureBootCopyMac(macptr, macval, packet) ==
    IF macptr # NULL /\ packet.data[ATCA_COUNT_IDX + 1] >= SECUREBOOT_RSP_SIZE_MAC
    THEN SubSeq(packet.data, ATCA_RSP_DATA_IDX + 1, ATCA_RSP_DATA_IDX + SECUREBOOT_MAC_SIZE)
    ELSE macval

(* calib_secureboot.  env.alloc: calib_packet_alloc succeeds; env.exec:    *)
(* status of atca_execute_command; env.rsp: the response it leaves in the  *)
(* packet on success.                                                      *)
calib_secureboot(device, mode, param2, digest, signature, macptr, macval, env) ==
    IF device = NULL \/ digest = NULL
    THEN CallResult(ATCA_BAD_PARAM, macval, 0, 0, 0, <<>>, NoPacket, FALSE)
    ELSE
    LET status0 == IF SecureBootTooSmall /\ signature # NULL
                   THEN ATCA_INVALID_SIZE ELSE UNSET
    IN  \* status0 is set without leaving the block: the code falls through
    IF ~env.alloc
    THEN CallResult(AllocFailStatus(status0), macval, 0, 0, 1, <<>>, NoPacket, FALSE)
    ELSE
    LET p0 == [ZeroPacket EXCEPT !.param1 = mode, !.param2 = param2]
        p1 == [p0 EXCEPT !.data = memcpy(p0.data, 0, digest, SECUREBOOT_DIGEST_SIZE)]
        p2 == IF signature # NULL
              THEN [p1 EXCEPT !.data = memcpy(p1.data, SECUREBOOT_DIGEST_SIZE, signature,
                                              SECUREBOOT_SIGNATURE_SIZE)]
              ELSE p1
        ovr == \/ SECUREBOOT_DIGEST_SIZE > PayloadCap
               \/ /\ signature # NULL
                  /\ SECUREBOOT_DIGEST_SIZE + SECUREBOOT_SIGNATURE_SIZE > PayloadCap
        built == atSecureBoot(p2)
    IN
    IF built.status # ATCA_SUCCESS
    THEN CallResult(built.status, macval, 1, 1, 0, <<>>, NoPacket, ovr)
    ELSE IF env.exec # ATCA_SUCCESS
    THEN CallResult(env.exec, macval, 1, 1, 0, <<"SecureBoot">>, built.packet, ovr)
    ELSE LET p3 == WriteResponse(built.packet, env.rsp)
         IN CallResult(ATCA_SUCCESS, SecureBootCopyMac(macptr, macval, p3),
                       1, 1, 0, <<"SecureBoot">>, built.packet, ovr)

(* The copy-out of the validating MAC after a successful Verify.           *)
VerifyCopyMac(macptr, macval, packet) ==
    IF macptr # NULL /\ packet.data[ATCA_COUNT_IDX + 1] >= ATCA_PACKET_OVERHEAD + MAC_SIZE
    THEN SubSeq(packet.data, ATCA_RSP_DATA_IDX + 1, ATCA_RSP_DATA_IDX + MAC_SIZE)
    ELSE macval

(* Mutant: External mode is let through without a public key.             *)
VerifyBadParam_noPubKey(device, verify_mode, signature, public_key, other_data) ==
    \/ device = NULL
    \/ signature = NULL
    \/ /\ verify_mode \in {VERIFY_MODE_VALIDATE, VERIFY_MODE_INVALIDATE}
       /\ other_data = NULL

(* The argument checks at the head of calib_verify.                        *)
VerifyBadParam(device, verify_mode, signature, public_key, other_data) ==
    \/ device = NULL
    \/ (verify_mode = VERIFY_MODE_EXTERNAL /\ public_key = NULL)
    \/ signature = NULL
    \/ /\ verify_mode \in {VERIFY_MODE_VALIDATE, VERIFY_MODE_INVALIDATE}
       /\ other_data = NULL

(* calib_verify.                                                           *)
calib_verify(device, mode, key_id, signature, public_key, other_data, macptr, macval, env) ==
    LET verify_mode == BitAnd(mode, VERIFY_MODE_MASK) IN
    IF VerifyBadParam(device, verify_mode, signature, public_key, other_data)
    THEN CallResult(ATCA_BAD_PARAM, macval, 0, 0, 0, <<>>, NoPacket, FALSE)
    ELSE
    LET status0 == IF VerifyExternalTooSmall /\ verify_mode = VERIFY_MODE_EXTERNAL
                   THEN ATCA_INVALID_SIZE ELSE UNSET
        status1 == IF /\ VerifyValidateTooSmall
                      /\ verify_mode \in {VERIFY_MODE_VALIDATE, VERIFY_MODE_INVALIDATE}
                   THEN ATCA_INVALID_SIZE ELSE status0
    IN  \* status1 is set without leaving the block: the code falls through
    IF ~env.alloc
    THEN CallResult(AllocFailStatus(status1), macval, 0, 0, 1, <<>>, NoPacket, FALSE)
    ELSE
    LET p0 == [ZeroPacket EXCEPT !.param1 = mode, !.param2 = key_id]
        p1 == [p0 EXCEPT !.data = memcpy(p0.data, 0, signature, ATCA_SIG_SIZE)]
        p2 == IF verify_mode = VERIFY_MODE_EXTERNAL
              THEN [p1 EXCEPT !.data = memcpy(p1.data, ATCA_SIG_SIZE, public_key,
                                              ATCA_PUB_KEY_SIZE)]
              ELSE p1
        p3 == IF verify_mode \in {VERIFY_MODE_VALIDATE, VERIFY_MODE_INVALIDATE}
              THEN [p2 EXCEPT !.data = memcpy(p2.data, ATCA_SIG_SIZE, other_data,
                                              VERIFY_OTHER_DATA_SIZE)]
              ELSE p2
        ovr == \/ ATCA_SIG_SIZE > PayloadCap
               \/ /\ verify_mode = VERIFY_MODE_EXTERNAL
                  /\ ATCA_SIG_SIZE + ATCA_PUB_KEY_SIZE > PayloadCap
               \/ /\ verify_mode \in {VERIFY_MODE_VALIDATE, VERIFY_MODE_INVALIDATE}
                  /\ ATCA_SIG_SIZE + VERIFY_OTHER_DATA_SIZE > PayloadCap
        built == atVerify(p3)
    IN
    IF built.status # ATCA_SUCCESS
    THEN CallResult(built.status, macval, 1, 1, 0, <<>>, NoPacket, ovr)
    ELSE IF env.exec # ATCA_SUCCESS
    THEN CallResult(env.exec, macval, 1, 1, 0, <<"Verify">>, built.packet, ovr)
    ELSE LET p4 == WriteResponse(built.packet, env.rsp)
         IN CallResult(ATCA_SUCCESS, VerifyCopyMac(macptr, macval, p4),
                       1, 1, 0, <<"Verify">>, built.packet, ovr)

-----------------------------------------------------------------------------
(* Inputs of the caller and answers of the environment.                    *)
MaxPacketSizes == {80, 100, 198}

DeviceTypes == {ATECC508A, ATECC608}

DEVICE == <<"device">>    \* a valid ATCADevice handle

Digest == Ramp(SECUREBOOT_DIGEST_SIZE, 16)
Signature == Ramp(ATCA_SIG_SIZE, 100)
PublicKey == Ramp(ATCA_PUB_KEY_SIZE, 7)
OtherData == Ramp(VERIFY_OTHER_DATA_SIZE, 50)
Message == Ramp(32, 200)
NumIn20 == Ramp(NONCE_NUMIN_SIZE, 1)
NumIn32 == Ramp(32, 2)
IoKey == Ramp(ATCA_KEY_SIZE, 77)
MacBefore == Bytes(MAC_SIZE, 238)   \* content of the caller's MAC buffer before a call

RandOuts == {Ramp(RANDOM_NUM_SIZE, 40 * r) : r \in 1..MaxVec}

(* The two SecureBootConfig bytes of the device's configuration zone, and  *)
(* the byte pairs a configuration read can deliver.                        *)
DeviceConfig == <<1, 0>>

ConfigBufs == {DeviceConfig, <<0, 1>>}

(* Responses the executor can leave in the packet: status only, or a MAC.  *)
NoMacRsp == <<ATCA_RSP_SIZE_MIN, 0, 0, 0>>

MacRsp(m) == <<ATCA_PACKET_OVERHEAD + MAC_SIZE>> \o m \o <<0, 0>>

TamperPos == {1 + (((r - 1) * (MAC_SIZE - 1)) % MAC_SIZE) : r \in 1..MaxVec}

Tamper(m, k) == [m EXCEPT ![k] = (m[k] + 1) % 256]

MacRsps(honest) ==
    {NoMacRsp, MacRsp(honest)} \cup {MacRsp(Tamper(honest, k)) : k \in TamperPos}

ExecStatuses == {ATCA_SUCCESS, ATCA_CHECKMAC_VERIFY_FAILED, ATCA_COMM_FAIL}

Envs(rsps) == [alloc : BOOLEAN, exec : ExecStatuses, rsp : rsps]

(* Status of a device command issued through another basic API function    *)
(* (calib_nonce_base, calib_nonce_load, calib_read_bytes_zone).            *)
DevCmdStatuses(device) ==
    IF device = NULL THEN {ATCA_BAD_PARAM} ELSE {ATCA_SUCCESS, ATCA_COMM_FAIL}

(* Status of a host hash-engine function.                                  *)
HostStatuses == {ATCA_SUCCESS, ATCA_BAD_PARAM}

NoArgs == [device |-> NULL, mode |-> 0, param2 |-> 0, digest |-> NULL,
           message |-> NULL, signature |-> NULL, public_key |-> NULL,
           other_data |-> NULL, num_in |-> NULL, io_key |-> NULL,
           is_verified |-> NULL, iv_before |-> FALSE, mac |-> NULL]

LocInit == [status |-> UNSET, cmd_status |-> UNSET, tempkey |-> UNINIT,
            rand_out |-> UNINIT, key |-> UNINIT, digest_enc |-> UNINIT,
            mac |-> UNINIT, host_mac |-> UNINIT, buf |-> UNINIT,
            secure_boot_config |-> 0, mode |-> 0, key_id |-> 0, nonce_mode |-> 0,
            msg_dig_buf |-> UNINIT, nonce_target |-> 0, verify_source |-> 0,
            loaded |-> NULL, nonce_in |-> NULL, dev_msg |-> NULL, rsp |-> NULL,
            cmp_work |-> 0, verify_mac_params |-> NULL]

(* The message buffers of the device: nothing loaded.                      *)
DevBufInit == [tempkey |-> NULL, msgdigbuf |-> NULL]

(* Nonce command in pass-through mode: data goes to the buffer the target  *)
(* bit of the mode names.                                                  *)
DevLoad(buf, target, data) ==
    IF target = NONCE_MODE_TARGET_MSGDIGBUF
    THEN [buf EXCEPT !.msgdigbuf = data]
    ELSE [buf EXCEPT !.tempkey = data]

(* Verify command: the message is taken from the buffer the source bit of  *)
(* the mode names.                                                         *)
DevSource(buf, mode) ==
    IF BitAnd(mode, VERIFY_MODE_SOURCE_MSGDIGBUF) # 0 THEN buf.msgdigbuf ELSE buf.tempkey

(* The second caller: not in a call.                                       *)
PeerIdle == [pc |-> "idle", dev_msg |-> NULL]

CallerInit ==
    /\ maxPacket \in MaxPacketSizes
    /\ devtype \in DeviceTypes
    /\ pc = "idle"
    /\ fn = "none"
    /\ args = NoArgs
    /\ loc = LocInit
    /\ is_verified = FALSE
    /\ callerMac = MacBefore
    /\ ret = "none"
    /\ log = <<>>
    /\ cmds = <<>>
    /\ sentPkt = NoPacket
    /\ allocs = 0
    /\ allocFails = 0
    /\ frees = 0
    /\ overrun = FALSE
    /\ devBuf = DevBufInit
    /\ peer = PeerIdle

(* One caller drives the Device Context.                                   *)
Init ==
    /\ CallerInit
    /\ serialized = TRUE

Build == <<maxPacket, devtype>>

(* What a call of this caller never changes: the build, the other caller.  *)
Context == <<Build, peer, serialized>>

(* A call of a function that is one action: everything it leaves behind.   *)
Finish(f, a, r, cmdst, l, iv, rsp) ==
    /\ pc' = "done"
    /\ fn' = f
    /\ args' = a
    /\ loc' = [LocInit EXCEPT !.status = r.status, !.cmd_status = cmdst, !.rsp = rsp,
                 !.dev_msg = IF r.cmds = <<"Verify">>
                             THEN DevSource(devBuf, r.pkt.param1) ELSE NULL]
    /\ is_verified' = iv
    /\ callerMac' = r.mac
    /\ ret' = r.status
    /\ log' = l
    /\ cmds' = r.cmds
    /\ sentPkt' = r.pkt
    /\ allocs' = r.allocs
    /\ allocFails' = r.allocFails
    /\ frees' = r.frees
    /\ overrun' = r.overrun
    /\ UNCHANGED devBuf
    /\ UNCHANGED Context

(* The response the executor left, when it was invoked and succeeded.      *)
RspOf(r, env) == IF r.cmds # <<>> /\ r.status = ATCA_SUCCESS THEN env.rsp ELSE NULL

-----------------------------------------------------------------------------
(* calib_secureboot called by the application.                             *)
SecureBootModes ==
    {SECUREBOOT_MODE_FULL, SECUREBOOT_MODE_FULL_STORE, SECUREBOOT_MODE_FULL_COPY, 0,
     BitOr(SECUREBOOT_MODE_FULL, SECUREBOOT_MODE_ENC_MAC_FLAG)}

Call_calib_secureboot ==
    /\ pc = "idle"
    /\ \E device \in {DEVICE, NULL}, mode \in SecureBootModes,
          digest \in {Digest, NULL}, signature \in {Signature, NULL},
          macptr \in {PTR, NULL}, iv \in BOOLEAN,
          env \in Envs(MacRsps(Ramp(SECUREBOOT_MAC_SIZE, 144))) :
        LET r == calib_secureboot(device, mode, 0, digest, signature, macptr, MacBefore, env)
            a == [NoArgs EXCEPT !.device = device, !.mode = mode, !.digest = digest,
                                !.signature = signature, !.mac = macptr,
                                !.iv_before = iv]
        IN Finish("calib_secureboot", a, r, r.status, <<"calib_secureboot">>, iv,
                  RspOf(r, env))

-----------------------------------------------------------------------------
(* calib_secureboot_mac, one step per action.                              *)

(* Entry: the null checks, *is_verified = false, the memsets.              *)
SBM_Call ==
    /\ pc = "idle"
    /\ \E device \in {DEVICE, NULL}, mode \in SecureBootModes \ {0},
          digest \in {Digest, NULL}, signature \in {Signature, NULL},
          num_in \in {NumIn20, NULL}, io_key \in {IoKey, NULL},
          ivptr \in {PTR, NULL}, iv \in BOOLEAN :
        LET a == [NoArgs EXCEPT !.device = device, !.mode = mode, !.digest = digest,
                                !.signature = signature, !.num_in = num_in,
                                !.io_key = io_key, !.is_verified = ivptr,
                                !.iv_before = iv]
        IN /\ fn' = "calib_secureboot_mac"
           /\ args' = a
           /\ log' = <<>>
           /\ cmds' = <<>>
           /\ sentPkt' = NoPacket
           /\ allocs' = 0
           /\ allocFails' = 0
           /\ frees' = 0
           /\ overrun' = FALSE
           /\ callerMac' = MacBefore
           /\ UNCHANGED devBuf
           /\ IF ivptr = NULL \/ digest = NULL \/ num_in = NULL \/ io_key = NULL
              THEN /\ loc' = [LocInit EXCEPT !.status = ATCA_BAD_PARAM]
                   /\ is_verified' = iv
                   /\ ret' = ATCA_BAD_PARAM
                   /\ pc' = "done"
              ELSE /\ loc' = [LocInit EXCEPT !.tempkey = Zeros(ATCA_KEY_SIZE),
                                             !.nonce_mode = NONCE_MODE_SEED_UPDATE]
                   /\ is_verified' = FALSE
                   /\ ret' = "none"
                   /\ pc' = "sbm_nonce"
    /\ UNCHANGED Context

(* What every step of a running call leaves alone; only the message loads  *)
(* write a device buffer.                                                  *)
LoadFrame == UNCHANGED <<maxPacket, devtype, fn, args, callerMac, peer, serialized>>

StepFrame == LoadFrame /\ UNCHANGED devBuf

NoPacketUse == UNCHANGED <<sentPkt, allocs, frees, allocFails, overrun>>

(* break: leave the do { } while (false) block and return status.          *)
Return(status) ==
    /\ ret' = status
    /\ pc' = "done"

(* Go on to the step at next, or return status when next is "done".        *)
Proceed(next, status) ==
    /\ pc' = next
    /\ ret' = IF next = "done" THEN status ELSE ret

(* Where calib_secureboot_mac goes after each of its steps.                *)
NonceNext(status) == IF status # ATCA_SUCCESS THEN "done" ELSE "sbm_tempkey"

(* Mutant: a failed nonce mixing does not leave the block.                  *)
TempKeyNext_ignore(status) == "sbm_enc"

TempKeyNext(status) == IF status # ATCA_SUCCESS THEN "done" ELSE "sbm_enc"

EncNext(status) == IF status # ATCA_SUCCESS THEN "done" ELSE "sbm_secureboot"

(* Mutant: the configuration is read whatever the SecureBoot command said. *)
SecureBootNext_always(status) == "sbm_read"

SecureBootNext(status) == IF status # ATCA_SUCCESS THEN "done" ELSE "sbm_read"

ReadConfigNext(status) == IF status # ATCA_SUCCESS THEN "done" ELSE "sbm_hostmac"

(* Mutant: a failed MAC computation does not leave the block.              *)
HostMacNext_ignore(status) == "sbm_compare"

HostMacNext(status) == IF status # ATCA_SUCCESS THEN "done" ELSE "sbm_compare"

(* Mutant: the verify-failed status is passed on as an error.              *)
SecureBootMacStatus_raw(status) == status

(* Verify failed... Still consider this a command success.                 *)
SecureBootMacStatus(status) ==
    IF status = ATCA_CHECKMAC_VERIFY_FAILED THEN ATCA_SUCCESS ELSE status

(* calib_nonce_base(device, nonce_params.mode, 0, num_in, rand_out).       *)
SBM_Nonce ==
    /\ pc = "sbm_nonce"
    /\ \E st \in DevCmdStatuses(args.device), ro \in RandOuts :
        /\ log' = Append(log, "calib_nonce_base")
        /\ cmds' = IF args.device # NULL THEN Append(cmds, "Nonce") ELSE cmds
        /\ loc' = IF st # ATCA_SUCCESS
                  THEN [loc EXCEPT !.status = st,
                         !.nonce_in = IF args.device # NULL THEN args.num_in ELSE NULL]
                  ELSE [loc EXCEPT !.status = st, !.rand_out = ro,
                         !.nonce_in = args.num_in]
        /\ Proceed(NonceNext(st), st)
    /\ UNCHANGED is_verified
    /\ NoPacketUse
    /\ StepFrame

(* atcah_nonce(&nonce_params): the host's copy of TempKey.                 *)
SBM_TempKey ==
    /\ pc = "sbm_tempkey"
    /\ \E st \in HostStatuses :
        /\ log' = Append(log, "atcah_nonce")
        /\ loc' = IF st # ATCA_SUCCESS
                  THEN [loc EXCEPT !.status = st]
                  ELSE [loc EXCEPT !.status = st,
                         !.tempkey = atcah_nonce(loc.nonce_mode, args.num_in,
                                                 loc.rand_out)]
        /\ Proceed(TempKeyNext(st), st)
    /\ UNCHANGED <<is_verified, cmds>>
    /\ NoPacketUse
    /\ StepFrame

(* atcah_secureboot_enc(&sboot_enc_params): hashed key and encrypted digest *)
SBM_Enc ==
    /\ pc = "sbm_enc"
    /\ \E st \in HostStatuses :
        /\ log' = Append(log, "atcah_secureboot_enc")
        /\ loc' = IF st # ATCA_SUCCESS
                  THEN [loc EXCEPT !.status = st]
                  ELSE LET k == HashedKey(args.io_key, loc.tempkey)
                       IN [loc EXCEPT !.status = st, !.key = k,
                                      !.digest_enc = DigestEnc(args.digest, k)]
        /\ Proceed(EncNext(st), st)
    /\ UNCHANGED <<is_verified, cmds>>
    /\ NoPacketUse
    /\ StepFrame

(* Mutant: the two configuration bytes assembled in the wrong order.       *)
SecureBootConfig_swapped(buf) == BitOr(buf[2], (buf[1] * 256) % 65536)

(* (uint16_t)buf[0] | ((uint16_t)buf[1] << 8)                              *)
SecureBootConfig(buf) == BitOr(buf[1], (buf[2] * 256) % 65536)

(* The MAC an untampered device answers with: the one the host is to       *)
(* recompute, over the device's own configuration bytes.                   *)
DeviceSecureBootMac ==
    atcah_secureboot_mac(BitOr(args.mode, SECUREBOOT_MODE_ENC_MAC_FLAG), 0, loc.key,
                         args.digest, args.signature,
                         DeviceConfig[1] + 256 * DeviceConfig[2])

(* Accounting of a nested calib_secureboot / calib_verify call.            *)
Account(r) ==
    /\ cmds' = cmds \o r.cmds
    /\ sentPkt' = IF r.cmds # <<>> THEN r.pkt ELSE sentPkt
    /\ allocs' = allocs + r.allocs
    /\ allocFails' = allocFails + r.allocFails
    /\ frees' = frees + r.frees
    /\ overrun' = (overrun \/ r.overrun)

(* Mutant: the plaintext digest is handed to the SecureBoot command.       *)
SecureBootDigestArg_plain == args.digest

(* The digest argument of the calib_secureboot call: digest_enc.           *)
SecureBootDigestArg == loc.digest_enc

(* Prepare the MAC calculator and run the SecureBoot command; a            *)
(* verify-failed status is a command success with is_verified = false.     *)
SBM_SecureBoot ==
    /\ pc = "sbm_secureboot"
    /\ \E env \in Envs(MacRsps(DeviceSecureBootMac)) :
        LET m == BitOr(args.mode, SECUREBOOT_MODE_ENC_MAC_FLAG)
            r == calib_secureboot(args.device, m, 0, SecureBootDigestArg, args.signature,
                                  PTR, loc.mac, env)
        IN /\ log' = Append(log, "calib_secureboot")
           /\ Account(r)
           /\ loc' = [loc EXCEPT !.mode = m, !.cmd_status = r.status,
                        !.status = SecureBootMacStatus(r.status), !.mac = r.mac,
                        !.rsp = RspOf(r, env)]
           /\ is_verified' = IF r.status = ATCA_CHECKMAC_VERIFY_FAILED
                             THEN FALSE ELSE is_verified
           /\ Proceed(SecureBootNext(r.status), SecureBootMacStatus(r.status))
    /\ StepFrame

(* calib_read_bytes_zone(device, ATCA_ZONE_CONFIG, 0,                      *)
(* SECUREBOOTCONFIG_OFFSET, buf, 2) and the assembly of the 16-bit field.  *)
SBM_ReadConfig ==
    /\ pc = "sbm_read"
    /\ \E st \in DevCmdStatuses(args.device), b \in ConfigBufs :
        /\ log' = Append(log, "calib_read_bytes_zone")
        /\ cmds' = IF args.device # NULL THEN Append(cmds, "Read") ELSE cmds
        /\ loc' = IF st # ATCA_SUCCESS
                  THEN [loc EXCEPT !.status = st]
                  ELSE [loc EXCEPT !.status = st, !.buf = b,
                         !.secure_boot_config = SecureBootConfig(b)]
        /\ Proceed(ReadConfigNext(st), st)
    /\ UNCHANGED is_verified
    /\ NoPacketUse
    /\ StepFrame

(* atcah_secureboot_mac(&sboot_mac_params): the expected MAC.              *)
SBM_HostMac ==
    /\ pc = "sbm_hostmac"
    /\ \E st \in HostStatuses :
        /\ log' = Append(log, "atcah_secureboot_mac")
        /\ loc' = IF st # ATCA_SUCCESS
                  THEN [loc EXCEPT !.status = st]
                  ELSE [loc EXCEPT !.status = st,
                         !.host_mac = atcah_secureboot_mac(loc.mode, 0, loc.key,
                                          args.digest, args.signature,
                                          loc.secure_boot_config)]
        /\ Proceed(HostMacNext(st), st)
    /\ UNCHANGED <<is_verified, cmds>>
    /\ NoPacketUse
    /\ StepFrame

(* Outcomes of memcmp(host_mac, mac, n) == 0.  Reading a buffer that was   *)
(* never written is undefined: either answer can come out.                 *)
MacEqual(host_mac, mac, n) ==
    IF mac = UNINIT \/ host_mac = UNINIT
    THEN BOOLEAN
    ELSE {memcmp(host_mac, mac, n) = 0}

(* The byte pairs memcmp(host_mac, mac, n) examines when its answer is eq.  *)
(* Equal buffers are recognised only after all n pairs; on a mismatch the   *)
(* C library is free to stop at the first differing pair or to go through   *)
(* all n, and nothing at the call site asks for either.                     *)
MemcmpWork(host_mac, mac, n, eq) ==
    IF eq THEN {n}
    ELSE IF mac = UNINIT \/ host_mac = UNINIT THEN 1..n
    ELSE LET diff == {i \in 1..n : host_mac[i] # mac[i]}
         IN {CHOOSE i \in diff : \A j \in diff : i <= j, n}

(* *is_verified = (memcmp(host_mac, mac, SECUREBOOT_MAC_SIZE) == 0)        *)
SecureBootMacVerified(host_mac, mac) == MacEqual(host_mac, mac, SECUREBOOT_MAC_SIZE)

SBM_Compare ==
    /\ pc = "sbm_compare"
    /\ \E eq \in SecureBootMacVerified(loc.host_mac, loc.mac) :
        /\ is_verified' = eq
        /\ \E w \in MemcmpWork(loc.host_mac, loc.mac, SECUREBOOT_MAC_SIZE, eq) :
               loc' = [loc EXCEPT !.cmp_work = w]
    /\ log' = Append(log, "memcmp")
    /\ Return(loc.status)
    /\ UNCHANGED cmds
    /\ NoPacketUse
    /\ StepFrame

-----------------------------------------------------------------------------
(* calib_verify called by the application.                                 *)
VerifyModes ==
    {VERIFY_MODE_STORED, VERIFY_MODE_VALIDATE_EXTERNAL, VERIFY_MODE_EXTERNAL,
     VERIFY_MODE_VALIDATE, VERIFY_MODE_INVALIDATE, 4,
     BitOr(VERIFY_MODE_EXTERNAL, VERIFY_MODE_SOURCE_MSGDIGBUF),
     BitOr(VERIFY_MODE_STORED, VERIFY_MODE_MAC_FLAG)}

KeySlot == 11             \* a slot holding a public key

Call_calib_verify ==
    /\ pc = "idle"
    /\ \E device \in {DEVICE, NULL}, mode \in VerifyModes,
          signature \in {Signature, NULL}, public_key \in {PublicKey, NULL},
          other_data \in {OtherData, NULL}, macptr \in {PTR, NULL}, iv \in BOOLEAN,
          env \in Envs(MacRsps(Ramp(MAC_SIZE, 144))) :
        LET r == calib_verify(device, mode, KeySlot, signature, public_key, other_data,
                              macptr, MacBefore, env)
            a == [NoArgs EXCEPT !.device = device, !.mode = mode, !.param2 = KeySlot,
                                !.signature = signature, !.public_key = public_key,
                                !.other_data = other_data, !.mac = macptr,
                                !.iv_before = iv]
        IN Finish("calib_verify", a, r, r.status, <<"calib_verify">>, iv, RspOf(r, env))

-----------------------------------------------------------------------------
(* calib_verify_extern_stored_mac, one step per action, entered through    *)
(* calib_verify_extern_mac or calib_verify_stored_mac.                     *)

(* Entry: the null checks, *is_verified = false, msg_dig_buf = message ||  *)
(* num_in.                                                                 *)
VM_Enter(f, a) ==
    /\ fn' = f
    /\ args' = a
    /\ log' = <<>>
    /\ cmds' = <<>>
    /\ sentPkt' = NoPacket
    /\ allocs' = 0
    /\ allocFails' = 0
    /\ frees' = 0
    /\ overrun' = FALSE
    /\ callerMac' = MacBefore
    /\ UNCHANGED devBuf
    /\ IF \/ a.is_verified = NULL \/ a.signature = NULL \/ a.message = NULL
          \/ a.num_in = NULL \/ a.io_key = NULL
          \/ (BitAnd(a.mode, VERIFY_MODE_MASK) = VERIFY_MODE_EXTERNAL /\ a.public_key = NULL)
       THEN /\ loc' = [LocInit EXCEPT !.status = ATCA_BAD_PARAM]
            /\ is_verified' = a.iv_before
            /\ ret' = ATCA_BAD_PARAM
            /\ pc' = "done"
       ELSE /\ loc' = [LocInit EXCEPT
                         !.msg_dig_buf = memcpy(memcpy(Zeros(64), 0, a.message, 32),
                                                32, a.num_in, 32)]
            /\ is_verified' = FALSE
            /\ ret' = "none"
            /\ pc' = "vm_load"
    /\ UNCHANGED Context

Call_calib_verify_extern_mac ==
    /\ pc = "idle"
    /\ \E device \in {DEVICE, NULL}, message \in {Message, NULL},
          signature \in {Signature, NULL}, public_key \in {PublicKey, NULL},
          num_in \in {NumIn32, NULL}, io_key \in {IoKey, NULL},
          ivptr \in {PTR, NULL}, iv \in BOOLEAN :
        VM_Enter("calib_verify_extern_mac",
                 [NoArgs EXCEPT !.device = device, !.mode = VERIFY_MODE_EXTERNAL,
                                !.param2 = VERIFY_KEY_P256, !.message = message,
                                !.signature = signature, !.public_key = public_key,
                                !.num_in = num_in, !.io_key = io_key,
                                !.is_verified = ivptr, !.iv_before = iv])

Call_calib_verify_stored_mac ==
    /\ pc = "idle"
    /\ \E device \in {DEVICE, NULL}, message \in {Message, NULL},
          signature \in {Signature, NULL},
          num_in \in {NumIn32, NULL}, io_key \in {IoKey, NULL},
          ivptr \in {PTR, NULL}, iv \in BOOLEAN :
        VM_Enter("calib_verify_stored_mac",
                 [NoArgs EXCEPT !.device = device, !.mode = VERIFY_MODE_STORED,
                                !.param2 = KeySlot, !.message = message,
                                !.signature = signature, !.public_key = NULL,
                                !.num_in = num_in, !.io_key = io_key,
                                !.is_verified = ivptr, !.iv_before = iv])

(* Where the MAC-qualified verify goes after each of its steps.            *)
LoadNext(status) == IF status # ATCA_SUCCESS THEN "done" ELSE "vm_hostmac"

(* Mutant: a failed host MAC computation does not leave the block.         *)
VerifyHostMacNext_ignore(status) == "vm_verify"

VerifyHostMacNext(status) == IF status # ATCA_SUCCESS THEN "done" ELSE "vm_verify"

VerifyNext(status) == IF status # ATCA_SUCCESS THEN "done" ELSE "vm_compare"

(* Verify failed, but command succeeded.                                   *)
VerifyMacStatus(status) ==
    IF status = ATCA_CHECKMAC_VERIFY_FAILED THEN ATCA_SUCCESS ELSE status

(* calib_nonce_load(device, NONCE_MODE_TARGET_MSGDIGBUF, msg_dig_buf, 64)  *)
VM_Load ==
    /\ pc = "vm_load"
    /\ \E st \in DevCmdStatuses(args.device) :
        /\ log' = Append(log, "calib_nonce_load")
        /\ cmds' = IF args.device # NULL THEN Append(cmds, "Nonce") ELSE cmds
        /\ loc' = IF st # ATCA_SUCCESS
                  THEN [loc EXCEPT !.status = st,
                         !.nonce_target = NONCE_MODE_TARGET_MSGDIGBUF]
                  ELSE [loc EXCEPT !.status = st,
                         !.nonce_target = NONCE_MODE_TARGET_MSGDIGBUF,
                         !.loaded = SubSeq(loc.msg_dig_buf, 1, 64)]
        /\ devBuf' = IF st # ATCA_SUCCESS THEN devBuf
                     ELSE DevLoad(devBuf, NONCE_MODE_TARGET_MSGDIGBUF,
                                  SubSeq(loc.msg_dig_buf, 1, 64))
        /\ Proceed(LoadNext(st), st)
    /\ UNCHANGED is_verified
    /\ NoPacketUse
    /\ LoadFrame

(* Mutant: the message source bit is left out of the mode.                  *)
VerifyMacMode_nosource(mode) == BitOr(mode, VERIFY_MODE_MAC_FLAG)

(* The mode handed to atcah_verify_mac and to calib_verify.                *)
VerifyMacMode(mode) ==
    BitOr(BitOr(mode, VERIFY_MODE_SOURCE_MSGDIGBUF), VERIFY_MODE_MAC_FLAG)

(* verify_mac_params as filled in before atcah_verify_mac is called.        *)
VerifyMacParams ==
    [mode |-> VerifyMacMode(args.mode), key_id |-> args.param2,
     signature |-> args.signature, msg_dig_buf |-> loc.msg_dig_buf,
     io_key |-> args.io_key]

(* atcah_verify_mac(&verify_mac_params): the expected MAC.                 *)
VM_HostMac ==
    /\ pc = "vm_hostmac"
    /\ \E st \in HostStatuses :
        /\ log' = Append(log, "atcah_verify_mac")
        /\ loc' = IF st # ATCA_SUCCESS
                  THEN [loc EXCEPT !.status = st, !.mode = VerifyMacMode(args.mode),
                         !.key_id = args.param2,
                         !.verify_mac_params = VerifyMacParams]
                  ELSE [loc EXCEPT !.status = st, !.mode = VerifyMacMode(args.mode),
                         !.key_id = args.param2,
                         !.verify_mac_params = VerifyMacParams,
                         !.host_mac = atcah_verify_mac(VerifyMacMode(args.mode),
                                          args.param2, args.signature,
                                          loc.msg_dig_buf, args.io_key)]
        /\ Proceed(VerifyHostMacNext(st), st)
    /\ UNCHANGED <<is_verified, cmds>>
    /\ NoPacketUse
    /\ StepFrame

(* The MAC an untampered device answers the Verify command with.           *)
DeviceVerifyMac ==
    atcah_verify_mac(VerifyMacMode(args.mode), args.param2, args.signature,
                     loc.loaded, args.io_key)

(* calib_verify with the MAC flag; verify-failed is a command success.     *)
VM_Verify ==
    /\ pc = "vm_verify"
    /\ \E env \in Envs(MacRsps(DeviceVerifyMac)) :
        LET r == calib_verify(args.device, loc.mode, loc.key_id, args.signature,
                              args.public_key, NULL, PTR, loc.mac, env)
        IN /\ log' = Append(log, "calib_verify")
           /\ Account(r)
           /\ loc' = [loc EXCEPT !.cmd_status = r.status,
                        !.status = VerifyMacStatus(r.status), !.mac = r.mac,
                        !.dev_msg = IF r.cmds # <<>> THEN DevSource(devBuf, loc.mode)
                                    ELSE NULL,
                        !.rsp = RspOf(r, env)]
           /\ Proceed(VerifyNext(r.status), VerifyMacStatus(r.status))
    /\ UNCHANGED is_verified
    /\ StepFrame

(* Mutant: only the leading bytes of the two MACs are compared.            *)
VerifyMacVerified_short(host_mac, mac) == MacEqual(host_mac, mac, MAC_SIZE - 1)

(* *is_verified = (memcmp(host_mac, mac, MAC_SIZE) == 0)                   *)
VerifyMacVerified(host_mac, mac) == MacEqual(host_mac, mac, MAC_SIZE)

VM_Compare ==
    /\ pc = "vm_compare"
    /\ \E eq \in VerifyMacVerified(loc.host_mac, loc.mac) :
        /\ is_verified' = eq
        /\ \E w \in MemcmpWork(loc.host_mac, loc.mac, MAC_SIZE, eq) :
               loc' = [loc EXCEPT !.cmp_work = w]
    /\ log' = Append(log, "memcmp")
    /\ Return(loc.status)
    /\ UNCHANGED cmds
    /\ NoPacketUse
    /\ StepFrame

-----------------------------------------------------------------------------
(* calib_verify_extern and calib_verify_stored: entry, message load,       *)
(* Verify command.                                                         *)

(* Entry of a load-then-verify wrapper: null checks, *is_verified = false. *)
Wrap_Enter(f, a, bad, first) ==
    /\ fn' = f
    /\ args' = a
    /\ log' = <<>>
    /\ cmds' = <<>>
    /\ sentPkt' = NoPacket
    /\ allocs' = 0
    /\ allocFails' = 0
    /\ frees' = 0
    /\ overrun' = FALSE
    /\ callerMac' = MacBefore
    /\ UNCHANGED devBuf
    /\ IF bad
       THEN /\ loc' = [LocInit EXCEPT !.status = ATCA_BAD_PARAM]
            /\ is_verified' = a.iv_before
            /\ ret' = ATCA_BAD_PARAM
            /\ pc' = "done"
       ELSE /\ loc' = [LocInit EXCEPT !.nonce_target = NONCE_MODE_TARGET_TEMPKEY,
                                      !.verify_source = VERIFY_MODE_SOURCE_TEMPKEY]
            /\ is_verified' = FALSE
            /\ ret' = "none"
            /\ pc' = first
    /\ UNCHANGED Context

VE_Call ==
    /\ pc = "idle"
    /\ \E device \in {DEVICE, NULL}, message \in {Message, NULL},
          signature \in {Signature, NULL}, public_key \in {PublicKey, NULL},
          ivptr \in {PTR, NULL}, iv \in BOOLEAN :
        Wrap_Enter("calib_verify_extern",
                   [NoArgs EXCEPT !.device = device, !.message = message,
                                  !.signature = signature, !.public_key = public_key,
                                  !.is_verified = ivptr, !.iv_before = iv],
                   \/ device = NULL \/ ivptr = NULL \/ signature = NULL
                   \/ message = NULL \/ public_key = NULL,
                   "ve_load")

VS_Call ==
    /\ pc = "idle"
    /\ \E device \in {DEVICE, NULL}, message \in {Message, NULL},
          signature \in {Signature, NULL},
          ivptr \in {PTR, NULL}, iv \in BOOLEAN :
        Wrap_Enter("calib_verify_stored",
                   [NoArgs EXCEPT !.device = device, !.message = message,
                                  !.signature = signature, !.param2 = KeySlot,
                                  !.is_verified = ivptr, !.iv_before = iv],
                   \/ device = NULL \/ ivptr = NULL \/ signature = NULL
                   \/ message = NULL,
                   "vs_load")

(* The buffer the message goes to and the Verify source that names it.     *)
(* Mutant: the message is loaded into TempKey on every device.             *)
NonceTarget_tempkey == loc.nonce_target

NonceTarget ==
    IF devtype = ATECC608 THEN NONCE_MODE_TARGET_MSGDIGBUF ELSE loc.nonce_target

(* Mutant: the Verify source stays TempKey on every device.                *)
VerifySource_tempkey == loc.verify_source

VerifySource ==
    IF devtype = ATECC608 THEN VERIFY_MODE_SOURCE_MSGDIGBUF ELSE loc.verify_source

WrapLoadNext(status, next) == IF status # ATCA_SUCCESS THEN "done" ELSE next

(* Load message into device: calib_nonce_load(device, nonce_target,        *)
(* message, 32).                                                           *)
Wrap_Load(next) ==
    \E st \in DevCmdStatuses(args.device) :
        /\ log' = Append(log, "calib_nonce_load")
        /\ cmds' = Append(cmds, "Nonce")
        /\ loc' = IF st # ATCA_SUCCESS
                  THEN [loc EXCEPT !.status = st, !.nonce_target = NonceTarget,
                         !.verify_source = VerifySource]
                  ELSE [loc EXCEPT !.status = st, !.nonce_target = NonceTarget,
                         !.verify_source = VerifySource,
                         !.loaded = SubSeq(args.message, 1, 32)]
        /\ devBuf' = IF st # ATCA_SUCCESS THEN devBuf
                     ELSE DevLoad(devBuf, NonceTarget, SubSeq(args.message, 1, 32))
        /\ Proceed(WrapLoadNext(st, next), st)
        /\ UNCHANGED is_verified
        /\ NoPacketUse
        /\ LoadFrame

(* Mutant: the verify-failed status is passed on as an error.              *)
WrapperStatus_raw(status) == status

(* The tail shared by the wrappers: *is_verified = (status == SUCCESS),    *)
(* and verify-failed becomes a command success.                            *)
WrapperStatus(status) ==
    IF status = ATCA_CHECKMAC_VERIFY_FAILED THEN ATCA_SUCCESS ELSE status

WrapperVerified(status) == (status = ATCA_SUCCESS)

(* status = calib_verify(device, mode | verify_source, key_id, signature,  *)
(* public_key, NULL, NULL) and the tail.                                   *)
Wrap_Verify(mode, key_id, public_key) ==
    \E env \in Envs({NoMacRsp}) :
        LET m == BitOr(mode, loc.verify_source)
            r == calib_verify(args.device, m, key_id, args.signature, public_key,
                              NULL, NULL, callerMac, env)
        IN /\ log' = Append(log, "calib_verify")
           /\ Account(r)
           /\ loc' = [loc EXCEPT !.mode = m, !.key_id = key_id, !.cmd_status = r.status,
                        !.status = WrapperStatus(r.status),
                        !.dev_msg = IF r.cmds # <<>> THEN DevSource(devBuf, m) ELSE NULL,
                        !.rsp = RspOf(r, env)]
           /\ is_verified' = WrapperVerified(r.status)
           /\ Return(WrapperStatus(r.status))
           /\ StepFrame

VE_Load ==
    /\ pc = "ve_load"
    /\ Wrap_Load("ve_verify")

VE_Verify ==
    /\ pc = "ve_verify"
    /\ Wrap_Verify(VERIFY_MODE_EXTERNAL, VERIFY_KEY_P256, args.public_key)

VS_Load ==
    /\ pc = "vs_load"
    /\ Wrap_Load("vs_verify")

VS_Verify ==
    /\ pc = "vs_verify"
    /\ Wrap_Verify(VERIFY_MODE_STORED, args.param2, NULL)

-----------------------------------------------------------------------------
(* The one-command wrappers: calib_verify_stored_with_tempkey,             *)
(* calib_verify_validate, calib_verify_invalidate.                         *)
Wrap_Single(f, a, bad, mode, other_data) ==
    \E env \in Envs({NoMacRsp}) :
        IF bad
        THEN Finish(f, a, CallResult(ATCA_BAD_PARAM, MacBefore, 0, 0, 0, <<>>, NoPacket, FALSE),
                    UNSET, <<>>, a.iv_before, NULL)
        ELSE LET r == calib_verify(a.device, mode, a.param2, a.signature, NULL,
                                   other_data, NULL, MacBefore, env)
             IN Finish(f, a, [r EXCEPT !.status = WrapperStatus(r.status)], r.status,
                       <<"calib_verify">>, WrapperVerified(r.status), RspOf(r, env))

(* The application loads the message into TempKey ahead of                  *)
(* calib_verify_stored_with_tempkey, as that function asks of its caller.   *)
App_LoadTempKey ==
    /\ pc = "idle"
    /\ devBuf.tempkey = NULL
    /\ devBuf' = DevLoad(devBuf, NONCE_MODE_TARGET_TEMPKEY, Message)
    /\ UNCHANGED <<pc, fn, args, loc, is_verified, callerMac, ret, log, cmds, sentPkt,
                   allocs, frees, allocFails, overrun>>
    /\ UNCHANGED Context

(* Mutant: the source follows the device type as in calib_verify_stored.    *)
TempKeyVerifyMode_bydevice ==
    BitOr(VERIFY_MODE_STORED,
          IF devtype = ATECC608 THEN VERIFY_MODE_SOURCE_MSGDIGBUF
          ELSE VERIFY_MODE_SOURCE_TEMPKEY)

(* VERIFY_MODE_STORED | verify_source, verify_source being TempKey.         *)
TempKeyVerifyMode == BitOr(VERIFY_MODE_STORED, VERIFY_MODE_SOURCE_TEMPKEY)

Call_calib_verify_stored_with_tempkey ==
    /\ pc = "idle"
    /\ \E device \in {DEVICE, NULL}, signature \in {Signature, NULL},
          ivptr \in {PTR, NULL}, iv \in BOOLEAN :
        Wrap_Single("calib_verify_stored_with_tempkey",
                    [NoArgs EXCEPT !.device = device, !.signature = signature,
                                   !.param2 = KeySlot, !.is_verified = ivptr,
                                   !.iv_before = iv],
                    device = NULL \/ ivptr = NULL \/ signature = NULL,
                    TempKeyVerifyMode, NULL)

Call_calib_verify_validate ==
    /\ pc = "idle"
    /\ \E device \in {DEVICE, NULL}, signature \in {Signature, NULL},
          other_data \in {OtherData, NULL}, ivptr \in {PTR, NULL}, iv \in BOOLEAN :
        Wrap_Single("calib_verify_validate",
                    [NoArgs EXCEPT !.device = device, !.signature = signature,
                                   !.other_data = other_data, !.param2 = KeySlot,
                                   !.is_verified = ivptr, !.iv_before = iv],
                    device = NULL \/ signature = NULL \/ other_data = NULL \/ ivptr = NULL,
                    VERIFY_MODE_VALIDATE, other_data)

Call_calib_verify_invalidate ==
    /\ pc = "idle"
    /\ \E device \in {DEVICE, NULL}, signature \in {Signature, NULL},
          other_data \in {OtherData, NULL}, ivptr \in {PTR, NULL}, iv \in BOOLEAN :
        Wrap_Single("calib_verify_invalidate",
                    [NoArgs EXCEPT !.device = device, !.signature = signature,
                                   !.other_data = other_data, !.param2 = KeySlot,
                                   !.is_verified = ivptr, !.iv_before = iv],
                    device = NULL \/ signature = NULL \/ other_data = NULL \/ ivptr = NULL,
                    VERIFY_MODE_INVALIDATE, other_data)

-----------------------------------------------------------------------------
(* The application takes the result and is free to make its next call.     *)
CallerContinues ==
    /\ pc = "done"
    /\ pc' = "idle"
    /\ fn' = "none"
    /\ args' = NoArgs
    /\ loc' = LocInit
    /\ is_verified' = FALSE
    /\ callerMac' = MacBefore
    /\ devBuf' = DevBufInit
    /\ ret' = "none"
    /\ log' = <<>>
    /\ cmds' = <<>>
    /\ sentPkt' = NoPacket
    /\ allocs' = 0
    /\ allocFails' = 0
    /\ frees' = 0
    /\ overrun' = FALSE
    /\ UNCHANGED Context

Next ==
    \/ Call_calib_secureboot
    \/ SBM_Call
    \/ SBM_Nonce
    \/ SBM_TempKey
    \/ SBM_Enc
    \/ SBM_SecureBoot
    \/ SBM_ReadConfig
    \/ SBM_HostMac
    \/ SBM_Compare
    \/ Call_calib_verify
    \/ Call_calib_verify_extern_mac
    \/ Call_calib_verify_stored_mac
    \/ VM_Load
    \/ VM_HostMac
    \/ VM_Verify
    \/ VM_Compare
    \/ VE_Call
    \/ VE_Load
    \/ VE_Verify
    \/ VS_Call
    \/ VS_Load
    \/ VS_Verify
    \/ App_LoadTempKey
    \/ Call_calib_verify_stored_with_tempkey
    \/ Call_calib_verify_validate
    \/ Call_calib_verify_invalidate
    \/ CallerContinues

Spec == Init /\ [][Next]_vars

-----------------------------------------------------------------------------
(* Two callers on one Device Context.  The second caller runs              *)
(* calib_verify_stored with valid arguments and its own message; its       *)
(* steps interleave with those of the first caller unless the application  *)
(* serializes the calls.  Nothing in the functions themselves takes a lock *)
(* or otherwise waits for the other caller.                                *)
PeerMessage == Ramp(32, 90)

PeerFrame ==
    UNCHANGED <<maxPacket, devtype, pc, fn, args, loc, is_verified, callerMac, ret,
                log, cmds, sentPkt, allocs, frees, allocFails, overrun, serialized>>

(* The application's discipline, when it keeps one: a call begins only     *)
(* while no other call is in flight.                                       *)
PeerGate == serialized => peer.pc = "idle"

CallerGate == serialized => pc = "idle"

(* Its nonce_target and verify_source.                                     *)
PeerTarget ==
    IF devtype = ATECC608 THEN NONCE_MODE_TARGET_MSGDIGBUF ELSE NONCE_MODE_TARGET_TEMPKEY

PeerSource ==
    IF devtype = ATECC608 THEN VERIFY_MODE_SOURCE_MSGDIGBUF ELSE VERIFY_MODE_SOURCE_TEMPKEY

(* Entry of the second caller's calib_verify_stored.                       *)
Peer_Call ==
    /\ peer.pc = "idle"
    /\ CallerGate
    /\ peer' = [pc |-> "load", dev_msg |-> NULL]
    /\ UNCHANGED devBuf
    /\ PeerFrame

(* Its calib_nonce_load(device, nonce_target, message, 32).                *)
Peer_Load ==
    /\ peer.pc = "load"
    /\ \E st \in DevCmdStatuses(DEVICE) :
        IF st # ATCA_SUCCESS
        THEN /\ peer' = [peer EXCEPT !.pc = "idle"]
             /\ UNCHANGED devBuf
        ELSE /\ peer' = [peer EXCEPT !.pc = "verify"]
             /\ devBuf' = DevLoad(devBuf, PeerTarget, PeerMessage)
    /\ PeerFrame

(* Its calib_verify(device, VERIFY_MODE_STORED | verify_source, ...): the  *)
(* device verifies what the source buffer holds at this moment.            *)
Peer_Verify ==
    /\ peer.pc = "verify"
    /\ peer' = [pc |-> "idle",
                dev_msg |-> DevSource(devBuf, BitOr(VERIFY_MODE_STORED, PeerSource))]
    /\ UNCHANGED devBuf
    /\ PeerFrame

Conc_VE_Call == PeerGate /\ VE_Call

Conc_VS_Call == PeerGate /\ VS_Call

Conc_VM_Extern_Call == PeerGate /\ Call_calib_verify_extern_mac

Conc_VM_Stored_Call == PeerGate /\ Call_calib_verify_stored_mac

ConcInit ==
    /\ CallerInit
    /\ serialized \in BOOLEAN

ConcNext ==
    \/ Conc_VE_Call
    \/ VE_Load
    \/ VE_Verify
    \/ Conc_VS_Call
    \/ VS_Load
    \/ VS_Verify
    \/ Conc_VM_Extern_Call
    \/ Conc_VM_Stored_Call
    \/ VM_Load
    \/ VM_HostMac
    \/ VM_Verify
    \/ VM_Compare
    \/ CallerContinues
    \/ Peer_Call
    \/ Peer_Load
    \/ Peer_Verify

ConcSpec == ConcInit /\ [][ConcNext]_vars

-----------------------------------------------------------------------------
(* Properties.                                                             *)

Last(q) == q[Len(q)]

InSeq(x, q) == \E i \in 1..Len(q) : q[i] = x

IsPrefix(a, b) == Len(a) <= Len(b) /\ \A i \in 1..Len(a) : a[i] = b[i]

Returned(f) == fn = f /\ pc = "done"

(* The steps of calib_secureboot_mac in the order the function lists them.  *)
SBM_Order ==
    <<"calib_nonce_base", "atcah_nonce", "atcah_secureboot_enc", "calib_secureboot",
      "calib_read_bytes_zone", "atcah_secureboot_mac", "memcmp">>

(* The MAC bytes a response carries, when its count field declares them.    *)
RspHasMac(rsp) == rsp # NULL /\ rsp[1] >= ATCA_PACKET_OVERHEAD + MAC_SIZE

RspMac(rsp) == [i \in 1..MAC_SIZE |-> rsp[1 + i]]

(* Every step of the last calib_secureboot_mac call ran and succeeded.      *)
SBM_AllSucceeded ==
    /\ Returned("calib_secureboot_mac")
    /\ log = SBM_Order
    /\ loc.cmd_status = ATCA_SUCCESS
    /\ loc.status = ATCA_SUCCESS

(* The host MAC over the SecureBootConfig value just read.                  *)
SBM_ExpectedMac ==
    atcah_secureboot_mac(BitOr(args.mode, SECUREBOOT_MODE_ENC_MAC_FLAG), 0, loc.key,
                         args.digest, args.signature, loc.buf[1] + 256 * loc.buf[2])

(* C1: when every step of calib_secureboot_mac succeeds the call returns    *)
(* Success, and is_verified is true exactly when the SecureBoot response    *)
(* carries a 32-byte MAC equal to the host MAC computed with                *)
(* buf[0] | buf[1] << 8 of the configuration bytes just read.               *)
C1_VerifiedIffMacsEqual ==
    SBM_AllSucceeded =>
        /\ ret = ATCA_SUCCESS
        /\ is_verified <=> (RspHasMac(loc.rsp) /\ RspMac(loc.rsp) = SBM_ExpectedMac)

(* The same statement for the responses that carry a MAC.                   *)
VerifiedIffMacsEqual_WhenMacReturned ==
    SBM_AllSucceeded =>
        /\ ret = ATCA_SUCCESS
        /\ RspHasMac(loc.rsp) => (is_verified <=> (RspMac(loc.rsp) = SBM_ExpectedMac))

C1_Witness ==
    /\ SBM_AllSucceeded
    /\ RspHasMac(loc.rsp)
    /\ is_verified
    /\ RspMac(loc.rsp) = SBM_ExpectedMac

VerifyMacReturned ==
    \/ Returned("calib_verify_extern_mac")
    \/ Returned("calib_verify_stored_mac")

(* The host MAC of the MAC-qualified verify.                                *)
VM_ExpectedMac ==
    atcah_verify_mac(BitOr(BitOr(args.mode, VERIFY_MODE_SOURCE_MSGDIGBUF),
                           VERIFY_MODE_MAC_FLAG),
                     args.param2, args.signature, args.message \o args.num_in,
                     args.io_key)

(* C2: in the MAC-qualified verify a verify-failed Verify command gives     *)
(* Success with is_verified = false; a successful Verify command always     *)
(* gives Success, with is_verified the byte-equality of the host MAC and    *)
(* the 32-byte MAC the device returned in its response.                     *)
C2_MacVerifyResult ==
    VerifyMacReturned =>
        /\ loc.cmd_status = ATCA_CHECKMAC_VERIFY_FAILED =>
               (ret = ATCA_SUCCESS /\ is_verified = FALSE)
        /\ loc.cmd_status = ATCA_SUCCESS =>
               /\ ret = ATCA_SUCCESS
               /\ is_verified <=>
                      (RspHasMac(loc.rsp) /\ RspMac(loc.rsp) = VM_ExpectedMac)

(* The same statement for the responses that carry a MAC.                   *)
MacVerifyResult_WhenMacReturned ==
    VerifyMacReturned =>
        /\ loc.cmd_status = ATCA_CHECKMAC_VERIFY_FAILED =>
               (ret = ATCA_SUCCESS /\ is_verified = FALSE)
        /\ loc.cmd_status = ATCA_SUCCESS =>
               /\ ret = ATCA_SUCCESS
               /\ RspHasMac(loc.rsp) =>
                      (is_verified <=> (RspMac(loc.rsp) = VM_ExpectedMac))

C2_Witness ==
    /\ VerifyMacReturned
    /\ loc.cmd_status = ATCA_SUCCESS
    /\ RspHasMac(loc.rsp)
    /\ RspMac(loc.rsp) # VM_ExpectedMac
    /\ ret = ATCA_SUCCESS
    /\ is_verified = FALSE

(* C3: in calib_secureboot_mac a verify-failed SecureBoot command ends the  *)
(* call with Success and is_verified = false, without configuration read    *)
(* and without MAC comparison; any other failure of the SecureBoot command  *)
(* is returned unchanged.                                                   *)
C3_SecureBootMismatchIsSuccess ==
    fn = "calib_secureboot_mac" =>
        /\ loc.cmd_status = ATCA_CHECKMAC_VERIFY_FAILED =>
               /\ pc = "done"
               /\ ret = ATCA_SUCCESS
               /\ is_verified = FALSE
               /\ ~InSeq("calib_read_bytes_zone", log)
               /\ ~InSeq("memcmp", log)
               /\ ~InSeq("Read", cmds)
        /\ loc.cmd_status \notin {UNSET, ATCA_SUCCESS, ATCA_CHECKMAC_VERIFY_FAILED} =>
               /\ pc = "done"
               /\ ret = loc.cmd_status

C3_Witness ==
    /\ Returned("calib_secureboot_mac")
    /\ loc.cmd_status = ATCA_CHECKMAC_VERIFY_FAILED
    /\ cmds = <<"Nonce", "SecureBoot">>
    /\ ret = ATCA_SUCCESS

WrapperFns ==
    {"calib_verify_extern", "calib_verify_stored", "calib_verify_stored_with_tempkey",
     "calib_verify_validate", "calib_verify_invalidate"}

(* The arguments the wrapper named by fn needs are all present.             *)
WrapperArgsValid ==
    /\ args.device # NULL
    /\ args.is_verified # NULL
    /\ args.signature # NULL
    /\ fn \in {"calib_verify_extern", "calib_verify_stored"} => args.message # NULL
    /\ fn = "calib_verify_extern" => args.public_key # NULL
    /\ fn \in {"calib_verify_validate", "calib_verify_invalidate"} => args.other_data # NULL

(* C4: each high-level wrapper, called with valid arguments, returns        *)
(* Success with is_verified = true when the Verify command succeeds,        *)
(* Success with is_verified = false when it reports verify-failed, and any  *)
(* other failure (a failed message load included) unchanged with            *)
(* is_verified = false.                                                     *)
C4_WrapperOutcome ==
    (fn \in WrapperFns /\ pc = "done" /\ WrapperArgsValid) =>
        /\ loc.cmd_status = ATCA_SUCCESS => (ret = ATCA_SUCCESS /\ is_verified = TRUE)
        /\ loc.cmd_status = ATCA_CHECKMAC_VERIFY_FAILED =>
               (ret = ATCA_SUCCESS /\ is_verified = FALSE)
        /\ loc.cmd_status \notin {UNSET, ATCA_SUCCESS, ATCA_CHECKMAC_VERIFY_FAILED} =>
               (ret = loc.cmd_status /\ is_verified = FALSE)
        /\ loc.cmd_status = UNSET =>
               /\ log = <<"calib_nonce_load">>
               /\ loc.status # ATCA_SUCCESS
               /\ ret = loc.status
               /\ is_verified = FALSE
               /\ ~InSeq("Verify", cmds)

C4_Witness ==
    /\ Returned("calib_verify_validate")
    /\ WrapperArgsValid
    /\ loc.cmd_status = ATCA_CHECKMAC_VERIFY_FAILED
    /\ ret = ATCA_SUCCESS
    /\ is_verified = FALSE

(* The mode bits of a Verify mode byte.                                     *)
VerifyModeOf(mode) == mode % 8

(* The arguments of the last calib_verify call pass its input contract.     *)
VerifyArgsValid ==
    /\ args.device # NULL
    /\ args.signature # NULL
    /\ VerifyModeOf(args.mode) = VERIFY_MODE_EXTERNAL => args.public_key # NULL
    /\ VerifyModeOf(args.mode) \in {VERIFY_MODE_VALIDATE, VERIFY_MODE_INVALIDATE} =>
           args.other_data # NULL

(* C5: in a build whose packet size cannot hold signature plus public key,  *)
(* calib_verify in External mode with valid arguments returns InvalidSize   *)
(* without allocating a packet or invoking the executor; likewise for       *)
(* Validate / Invalidate when signature plus other-data does not fit.       *)
C5_OversizedVerifyRejected ==
    (/\ Returned("calib_verify")
     /\ VerifyArgsValid
     /\ \/ /\ VerifyExternalTooSmall
           /\ VerifyModeOf(args.mode) = VERIFY_MODE_EXTERNAL
        \/ /\ VerifyValidateTooSmall
           /\ VerifyModeOf(args.mode) \in {VERIFY_MODE_VALIDATE, VERIFY_MODE_INVALIDATE})
    => /\ ret = ATCA_INVALID_SIZE
       /\ allocs = 0
       /\ cmds = <<>>
       /\ sentPkt = NoPacket

(* C6: in a build whose packet size cannot hold digest plus signature,      *)
(* calib_secureboot with a signature returns InvalidSize, the executor is   *)
(* never invoked and the oversized payload is never written into a packet.  *)
C6_OversizedSecureBootRejected ==
    (/\ Returned("calib_secureboot")
     /\ args.device # NULL
     /\ args.digest # NULL
     /\ args.signature # NULL
     /\ SecureBootTooSmall)
    => /\ ret = ATCA_INVALID_SIZE
       /\ cmds = <<>>
       /\ sentPkt = NoPacket
       /\ overrun = FALSE

(* C7: calib_verify returns BadParameter, without packet and without        *)
(* executor call, when device or signature is absent, when the mode is      *)
(* External and public_key is absent, or when the mode is Validate or       *)
(* Invalidate and other_data is absent; Stored mode needs neither           *)
(* public_key nor other_data to get past the argument checks.               *)
C7_VerifyInputContract ==
    Returned("calib_verify") =>
        /\ ~VerifyArgsValid => (ret = ATCA_BAD_PARAM /\ allocs = 0 /\ cmds = <<>>)
        /\ (/\ VerifyModeOf(args.mode) = VERIFY_MODE_STORED
            /\ args.device # NULL
            /\ args.signature # NULL) => (allocs = 1 \/ ret = ATCA_ALLOC_FAILURE)

C7_Witness ==
    /\ Returned("calib_verify")
    /\ VerifyModeOf(args.mode) = VERIFY_MODE_EXTERNAL
    /\ args.device # NULL
    /\ args.signature # NULL
    /\ args.public_key = NULL
    /\ ret = ATCA_BAD_PARAM
    /\ allocs = 0

(* C8: calib_secureboot rejects an absent signature in every mode but       *)
(* FullStore before the executor is invoked, and returns BadParameter       *)
(* without executor call when device or digest is absent.                   *)
C8_AbsentSignatureOnlyFullStore ==
    Returned("calib_secureboot") =>
        /\ (/\ args.device # NULL
            /\ args.digest # NULL
            /\ args.signature = NULL
            /\ args.mode % 8 # SECUREBOOT_MODE_FULL_STORE)
           => (ret \in {ATCA_BAD_PARAM, ATCA_INVALID_SIZE} /\ cmds = <<>>)
        /\ (args.device = NULL \/ args.digest = NULL)
           => (ret = ATCA_BAD_PARAM /\ cmds = <<>>)

FailFastSteps ==
    {"calib_nonce_base", "atcah_nonce", "atcah_secureboot_enc",
     "calib_read_bytes_zone", "atcah_secureboot_mac"}

(* C9: calib_secureboot_mac is fail-fast: when the Nonce command, the nonce *)
(* mixing, the digest encryption, the configuration read or the MAC         *)
(* computation fails, the call has returned that step's status with no      *)
(* later step run and is_verified false.                                    *)
C9_FailFast ==
    (/\ fn = "calib_secureboot_mac"
     /\ log # <<>>
     /\ Last(log) \in FailFastSteps
     /\ loc.status # ATCA_SUCCESS)
    => /\ pc = "done"
       /\ ret = loc.status
       /\ is_verified = FALSE

C9_Witness ==
    /\ Returned("calib_secureboot_mac")
    /\ log # <<>>
    /\ Last(log) = "calib_read_bytes_zone"
    /\ loc.status = ATCA_COMM_FAIL
    /\ ret = ATCA_COMM_FAIL
    /\ cmds = <<"Nonce", "SecureBoot", "Read">>

(* C10: the steps of calib_secureboot_mac run only in the fixed order       *)
(* Nonce (seed update), TempKey, encryption, SecureBoot, configuration      *)
(* read, expected MAC, comparison; the configuration read is never issued   *)
(* unless the SecureBoot command returned Success, and the comparison       *)
(* never happens unless the configuration read succeeded.                   *)
C10_FixedStepOrder ==
    fn = "calib_secureboot_mac" =>
        /\ IsPrefix(log, SBM_Order)
        /\ IsPrefix(cmds, <<"Nonce", "SecureBoot", "Read">>)
        /\ InSeq("Nonce", cmds) => loc.nonce_mode = NONCE_MODE_SEED_UPDATE
        /\ InSeq("calib_read_bytes_zone", log) => loc.cmd_status = ATCA_SUCCESS
        /\ InSeq("memcmp", log) => (loc.buf \in ConfigBufs /\ loc.host_mac # UNINIT)

C10_Witness ==
    /\ Returned("calib_secureboot_mac")
    /\ log = SBM_Order
    /\ cmds = <<"Nonce", "SecureBoot", "Read">>

(* The steps of calib_verify_extern_stored_mac in the order the function    *)
(* lists them: Idle -> MessageLoaded -> (host MAC) -> CommandExecuted ->    *)
(* Compared.                                                                *)
VM_Order == <<"calib_nonce_load", "atcah_verify_mac", "calib_verify", "memcmp">>

VerifyMacFns == {"calib_verify_extern_mac", "calib_verify_stored_mac"}

(* C11: the MAC-qualified verify runs its steps only in the order load,     *)
(* host MAC, Verify command, comparison, none of them twice; the Verify     *)
(* command is issued only after the 64-byte load succeeded and the host MAC *)
(* was computed, the comparison only after the Verify command returned      *)
(* Success, and a failed load or host MAC computation ends the call with    *)
(* that step's status and no Verify command.                                *)
C11_VerifyMacStateMachine ==
    fn \in VerifyMacFns =>
        /\ IsPrefix(log, VM_Order)
        /\ IsPrefix(cmds, <<"Nonce", "Verify">>)
        /\ InSeq("calib_verify", log) =>
               (Len(loc.loaded) = 64 /\ loc.host_mac # UNINIT)
        /\ InSeq("memcmp", log) => loc.cmd_status = ATCA_SUCCESS
        /\ (/\ log # <<>>
            /\ Last(log) \in {"calib_nonce_load", "atcah_verify_mac"}
            /\ loc.status # ATCA_SUCCESS)
           => /\ pc = "done"
              /\ ret = loc.status
              /\ ret # ATCA_SUCCESS
              /\ ~InSeq("Verify", cmds)

C11_Witness ==
    /\ fn \in VerifyMacFns
    /\ pc = "done"
    /\ log = VM_Order
    /\ cmds = <<"Nonce", "Verify">>
    /\ ret = ATCA_SUCCESS

Count(x, q) == Cardinality({i \in 1..Len(q) : q[i] = x})

(* The TempKey the host derives from the Nonce exchange of the running      *)
(* call, and the key derived from it.                                       *)
SBM_CallTempKey == atcah_nonce(NONCE_MODE_SEED_UPDATE, args.num_in, loc.rand_out)

SBM_CallKey == HashedKey(args.io_key, SBM_CallTempKey)

(* C12: every SecureBoot command calib_secureboot_mac issues is the only    *)
(* one of its call and directly follows that call's one successful          *)
(* seed-update Nonce command; the TempKey behind the key derivation and the *)
(* encrypted digest of the command is the one derived in this call from     *)
(* this call's Nonce exchange, never a value left from elsewhere; before    *)
(* the derivation the host TempKey is all zero.                             *)
C12_OneTempKeyPerOperation ==
    fn = "calib_secureboot_mac" =>
        /\ pc = "sbm_nonce" => loc.tempkey = Zeros(ATCA_KEY_SIZE)
        /\ Count("Nonce", cmds) <= 1
        /\ Count("SecureBoot", cmds) <= 1
        /\ loc.key # UNINIT =>
               /\ loc.rand_out \in RandOuts
               /\ loc.tempkey = SBM_CallTempKey
               /\ loc.key = SBM_CallKey
        /\ InSeq("SecureBoot", cmds) =>
               /\ SubSeq(cmds, 1, 2) = <<"Nonce", "SecureBoot">>
               /\ SubSeq(log, 1, 4) = SubSeq(SBM_Order, 1, 4)
               /\ loc.nonce_mode = NONCE_MODE_SEED_UPDATE
               /\ loc.rand_out \in RandOuts
               /\ loc.tempkey = SBM_CallTempKey
               /\ loc.key = SBM_CallKey
               /\ SubSeq(sentPkt.data, 1, SECUREBOOT_DIGEST_SIZE)
                      = DigestEnc(args.digest, SBM_CallKey)

C12_Witness ==
    /\ fn = "calib_secureboot_mac"
    /\ pc = "done"
    /\ cmds = <<"Nonce", "SecureBoot", "Read">>
    /\ loc.tempkey = SBM_CallTempKey
    /\ loc.tempkey # Zeros(ATCA_KEY_SIZE)
    /\ SubSeq(sentPkt.data, 1, SECUREBOOT_DIGEST_SIZE) = DigestEnc(args.digest, SBM_CallKey)

(* secret occurs somewhere in data as a contiguous run of bytes.            *)
Contains(data, secret) ==
    \E off \in 0..(Len(data) - Len(secret)) :
        SubSeq(data, off + 1, off + Len(secret)) = secret

(* C13: the payload calib_secureboot_mac hands to the executor for the      *)
(* SecureBoot command starts with the encrypted digest, followed by the     *)
(* signature or zeros, and contains neither the plaintext digest nor the    *)
(* IO protection key nor the derived hashed key; the Nonce command carries  *)
(* num_in and nothing else of the caller, and no further command carries    *)
(* caller data.                                                             *)
C13_NoSecretLeavesHost ==
    fn = "calib_secureboot_mac" =>
        /\ \A i \in 1..Len(cmds) : cmds[i] \in {"Nonce", "SecureBoot", "Read"}
        /\ InSeq("Nonce", cmds) => loc.nonce_in = args.num_in
        /\ InSeq("SecureBoot", cmds) =>
               /\ sentPkt.opcode = "SecureBoot"
               /\ SubSeq(sentPkt.data, 1, SECUREBOOT_DIGEST_SIZE) = loc.digest_enc
               /\ loc.digest_enc = DigestEnc(args.digest, loc.key)
               /\ \A i \in (SECUREBOOT_DIGEST_SIZE + 1)..Len(sentPkt.data) :
                      sentPkt.data[i] =
                          IF /\ args.signature # NULL
                             /\ i <= SECUREBOOT_DIGEST_SIZE + SECUREBOOT_SIGNATURE_SIZE
                          THEN args.signature[i - SECUREBOOT_DIGEST_SIZE]
                          ELSE 0
               /\ ~Contains(sentPkt.data, args.digest)
               /\ ~Contains(sentPkt.data, args.io_key)
               /\ ~Contains(sentPkt.data, loc.key)

C13_Witness ==
    /\ fn = "calib_secureboot_mac"
    /\ pc = "done"
    /\ InSeq("SecureBoot", cmds)
    /\ args.signature # NULL
    /\ Len(sentPkt.data) >= SECUREBOOT_DIGEST_SIZE + SECUREBOOT_SIGNATURE_SIZE
    /\ SubSeq(sentPkt.data, 1, SECUREBOOT_DIGEST_SIZE) = loc.digest_enc
    /\ loc.digest_enc # args.digest
    /\ loc.nonce_in = NumIn20

LoadVerifyFns == {"calib_verify_extern", "calib_verify_stored"}

(* C14: calib_verify_extern and calib_verify_stored load the message into   *)
(* the message digest buffer and verify from it exactly on an ATECC608, and *)
(* use TempKey for both on any other device; load target and Verify source  *)
(* name the same buffer, and the Verify command is issued only after a      *)
(* successful load.                                                         *)
C14_LoadTargetMatchesVerifySource ==
    fn \in LoadVerifyFns =>
        /\ InSeq("calib_nonce_load", log) =>
               /\ loc.nonce_target = IF devtype = ATECC608
                                     THEN NONCE_MODE_TARGET_MSGDIGBUF
                                     ELSE NONCE_MODE_TARGET_TEMPKEY
               /\ loc.verify_source = IF devtype = ATECC608
                                      THEN VERIFY_MODE_SOURCE_MSGDIGBUF
                                      ELSE VERIFY_MODE_SOURCE_TEMPKEY
               /\ (loc.nonce_target = NONCE_MODE_TARGET_MSGDIGBUF)
                      <=> (loc.verify_source = VERIFY_MODE_SOURCE_MSGDIGBUF)
        /\ InSeq("calib_verify", log) =>
               /\ log = <<"calib_nonce_load", "calib_verify">>
               /\ loc.loaded = args.message
        /\ InSeq("Verify", cmds) =>
               /\ cmds = <<"Nonce", "Verify">>
               /\ loc.loaded = args.message
               /\ BitAnd(sentPkt.param1, VERIFY_MODE_SOURCE_MSGDIGBUF)
                      = IF devtype = ATECC608 THEN VERIFY_MODE_SOURCE_MSGDIGBUF ELSE 0
               /\ (BitAnd(sentPkt.param1, VERIFY_MODE_SOURCE_MSGDIGBUF) # 0)
                      <=> (loc.nonce_target = NONCE_MODE_TARGET_MSGDIGBUF)

C14_Witness ==
    /\ fn = "calib_verify_stored"
    /\ pc = "done"
    /\ devtype = ATECC608
    /\ cmds = <<"Nonce", "Verify">>
    /\ loc.nonce_target = NONCE_MODE_TARGET_MSGDIGBUF
    /\ sentPkt.param1 = BitOr(VERIFY_MODE_STORED, VERIFY_MODE_SOURCE_MSGDIGBUF)

(* C15: every packet calib_secureboot or calib_verify obtains from the      *)
(* allocator is released exactly once before the function returns, on every *)
(* exit path; whenever control is outside these two functions no packet is  *)
(* outstanding.                                                             *)
C15_PacketsReleasedOnce ==
    /\ frees = allocs
    /\ allocs <= Count("calib_secureboot", log) + Count("calib_verify", log)
    /\ Len(cmds) > 0 /\ fn \in {"calib_secureboot", "calib_verify"} => allocs = 1

C15_Witness ==
    /\ fn = "calib_verify"
    /\ pc = "done"
    /\ ret = ATCA_COMM_FAIL
    /\ allocs = 1
    /\ frees = 1

(* C16: one call of calib_secureboot or calib_verify hands at most one      *)
(* command to the executor and returns an executor fault as it is; so       *)
(* calib_secureboot_mac issues at most one Nonce, one SecureBoot and one    *)
(* Read command per call, and the MAC-qualified verify at most one load and *)
(* one Verify command.                                                      *)
C16_NoRetries ==
    /\ fn \in {"calib_secureboot", "calib_verify"} =>
           /\ Len(cmds) <= 1
           /\ (pc = "done" /\ loc.cmd_status = ATCA_COMM_FAIL) =>
                  (ret = ATCA_COMM_FAIL /\ Len(cmds) = 1)
    /\ fn = "calib_secureboot_mac" =>
           /\ Count("Nonce", cmds) <= 1
           /\ Count("SecureBoot", cmds) <= 1
           /\ Count("Read", cmds) <= 1
           /\ Len(cmds) <= 3
           /\ (pc = "done" /\ loc.cmd_status = ATCA_COMM_FAIL) =>
                  (ret = ATCA_COMM_FAIL /\ Last(cmds) = "SecureBoot")
    /\ fn \in VerifyMacFns =>
           /\ Count("Nonce", cmds) <= 1
           /\ Count("Verify", cmds) <= 1
           /\ Len(cmds) <= 2
           /\ (pc = "done" /\ loc.cmd_status = ATCA_COMM_FAIL) =>
                  (ret = ATCA_COMM_FAIL /\ Last(cmds) = "Verify")

C16_Witness ==
    /\ fn = "calib_secureboot_mac"
    /\ pc = "done"
    /\ loc.cmd_status = ATCA_COMM_FAIL
    /\ ret = ATCA_COMM_FAIL
    /\ cmds = <<"Nonce", "SecureBoot">>

(* The last calib_secureboot / calib_verify call had to copy a MAC out: the *)
(* executor succeeded, a MAC was requested and the response declares one.   *)
MacCopyDue(macptr) ==
    /\ loc.cmd_status = ATCA_SUCCESS
    /\ macptr # NULL
    /\ RspHasMac(loc.rsp)

(* C17: calib_secureboot and calib_verify write the MAC output exactly when *)
(* the executor returned Success, a MAC output was given and the response   *)
(* count declares a full MAC response; what they write is the 32 bytes at   *)
(* the start of the response data, and in every other case the MAC output   *)
(* keeps the content it had.                                                *)
C17_MacOutputWrittenIff ==
    /\ (fn \in {"calib_secureboot", "calib_verify"} /\ pc = "done") =>
           callerMac = IF MacCopyDue(args.mac) THEN RspMac(loc.rsp) ELSE MacBefore
    /\ (/\ fn \in {"calib_secureboot_mac"} \cup VerifyMacFns
        /\ (InSeq("calib_secureboot", log) \/ InSeq("calib_verify", log))) =>
           /\ loc.mac = IF MacCopyDue(PTR) THEN RspMac(loc.rsp) ELSE UNINIT
           /\ callerMac = MacBefore

C17_Witness ==
    /\ fn = "calib_secureboot"
    /\ pc = "done"
    /\ MacCopyDue(args.mac)
    /\ Len(callerMac) = SECUREBOOT_MAC_SIZE
    /\ callerMac = RspMac(loc.rsp)
    /\ callerMac # MacBefore

(* A short response leaves the MAC output alone.                            *)
C17_WitnessShort ==
    /\ fn = "calib_verify"
    /\ pc = "done"
    /\ ret = ATCA_SUCCESS
    /\ args.mac # NULL
    /\ ~RspHasMac(loc.rsp)
    /\ callerMac = MacBefore

(* The packet the last calib_secureboot call handed to the executor carries *)
(* payload in the payload area, byte for byte.                              *)
PayloadIs(payload) ==
    /\ Len(sentPkt.data) >= Len(payload)
    /\ SubSeq(sentPkt.data, 1, Len(payload)) = payload
    /\ \A i \in (Len(payload) + 1)..Len(sentPkt.data) : sentPkt.data[i] = 0

(* C18: the request calib_secureboot hands to the executor carries the      *)
(* 32-byte digest followed by the 64-byte signature (offsets 0..31 and      *)
(* 32..95) when a signature is present, and the digest with nothing but     *)
(* zeros after offset 31 when it is absent, written inside the packet's     *)
(* payload area; param1 and param2 carry mode and param2 unchanged.         *)
C18_SecureBootPayload ==
    (fn = "calib_secureboot" /\ pc = "done" /\ cmds # <<>>) =>
        /\ sentPkt.param1 = args.mode
        /\ sentPkt.param2 = args.param2
        /\ ~overrun
        /\ PayloadIs(IF args.signature # NULL
                     THEN args.digest \o args.signature
                     ELSE args.digest)

(* The same statement for the builds whose payload area holds digest and    *)
(* signature.                                                               *)
SecureBootPayload_WhenItFits ==
    ~SecureBootTooSmall => C18_SecureBootPayload

SecureBootPayload_Reached ==
    /\ fn = "calib_secureboot"
    /\ pc = "done"
    /\ ~SecureBootTooSmall
    /\ args.signature # NULL
    /\ PayloadIs(args.digest \o args.signature)

(* What the Verify request carries after the signature, by mode.            *)
VerifyExtra ==
    IF VerifyModeOf(args.mode) = VERIFY_MODE_EXTERNAL THEN args.public_key
    ELSE IF VerifyModeOf(args.mode) \in {VERIFY_MODE_VALIDATE, VERIFY_MODE_INVALIDATE}
    THEN args.other_data
    ELSE <<>>

(* C19: the request calib_verify hands to the executor carries the 64-byte  *)
(* signature at offsets 0..63, then from offset 64 the 64-byte public key   *)
(* in External mode, the 19-byte other-data in Validate or Invalidate mode  *)
(* and zeros in the other modes, never both, written inside the packet's    *)
(* payload area; param1 and param2 carry mode and key_id unchanged.         *)
C19_VerifyPayload ==
    (fn = "calib_verify" /\ pc = "done" /\ cmds # <<>>) =>
        /\ sentPkt.param1 = args.mode
        /\ sentPkt.param2 = args.param2
        /\ ~overrun
        /\ PayloadIs(args.signature \o VerifyExtra)

(* The same statement for the builds whose payload area holds signature and *)
(* public key.                                                              *)
VerifyPayload_WhenItFits ==
    ~VerifyExternalTooSmall => C19_VerifyPayload

VerifyPayload_Reached ==
    /\ fn = "calib_verify"
    /\ pc = "done"
    /\ ~VerifyExternalTooSmall
    /\ VerifyModeOf(args.mode) = VERIFY_MODE_INVALIDATE
    /\ PayloadIs(args.signature \o args.other_data)

(* C20: while the application serializes the calls on a Device Context,     *)
(* every Verify command of calib_verify_extern, calib_verify_stored and the *)
(* MAC-qualified verify executes against the message its own call loaded;   *)
(* the functions take no lock, so without that discipline a second call     *)
(* can replace the loaded message between the load and the Verify command.  *)
C20_SerializedVerifyUsesOwnMessage ==
    serialized =>
        /\ (fn \in LoadVerifyFns /\ InSeq("Verify", cmds)) =>
               loc.dev_msg = args.message
        /\ (fn \in VerifyMacFns /\ InSeq("Verify", cmds)) =>
               loc.dev_msg = args.message \o args.num_in
        /\ pc \in {"ve_verify", "vs_verify"} =>
               DevSource(devBuf, loc.verify_source) = args.message
        /\ pc \in {"vm_hostmac", "vm_verify"} =>
               devBuf.msgdigbuf = args.message \o args.num_in
        /\ peer.pc = "verify" => DevSource(devBuf, PeerSource) = PeerMessage
        /\ peer.dev_msg \in {NULL, PeerMessage}

(* Serialized: a Verify command ran against the message its call loaded,    *)
(* after the other caller had completed a call of its own.                  *)
C20_Witness ==
    /\ serialized
    /\ fn \in LoadVerifyFns
    /\ pc = "done"
    /\ InSeq("Verify", cmds)
    /\ loc.dev_msg = args.message
    /\ peer.dev_msg = PeerMessage

(* Not serialized: the device verified the other caller's message.          *)
C20_Overwritten ==
    /\ ~serialized
    /\ fn \in LoadVerifyFns
    /\ pc = "done"
    /\ InSeq("Verify", cmds)
    /\ args.message = Message
    /\ loc.dev_msg = PeerMessage

(* C21: the comparison of the host MAC with the device MAC in               *)
(* calib_secureboot_mac and in the MAC-qualified verify does the same work  *)
(* wherever the first differing byte lies.  Equal MACs are told only by     *)
(* going through all 32 pairs, so the work is independent of the mismatch   *)
(* position exactly when every comparison goes through all 32 pairs.        *)
C21_CompareConstantTime ==
    (/\ fn \in {"calib_secureboot_mac"} \cup VerifyMacFns
     /\ InSeq("memcmp", log)
     /\ RspHasMac(loc.rsp)) =>
        loc.cmp_work = MAC_SIZE

(* A comparison of written MACs that differ in the first byte and stopped   *)
(* there.                                                                   *)
C21_EarlyExit ==
    /\ fn = "calib_secureboot_mac"
    /\ pc = "done"
    /\ InSeq("memcmp", log)
    /\ RspHasMac(loc.rsp)
    /\ loc.mac[1] # loc.host_mac[1]
    /\ loc.cmp_work = 1

(* C22: the MAC-qualified verify loads exactly 64 bytes, message followed   *)
(* by num_in, into the message digest buffer on every device variant; the   *)
(* mode (mode | message-digest-buffer source | MAC flag), key_id and        *)
(* signature handed to atcah_verify_mac are the ones the Verify command     *)
(* carries, and the buffer handed to it is the 64 bytes that were loaded.   *)
C22_MacVerifyBinding ==
    fn \in VerifyMacFns =>
        /\ InSeq("calib_nonce_load", log) =>
               /\ loc.nonce_target = NONCE_MODE_TARGET_MSGDIGBUF
               /\ Len(loc.msg_dig_buf) = 64
               /\ loc.msg_dig_buf = args.message \o args.num_in
        /\ loc.loaded # NULL =>
               /\ loc.loaded = args.message \o args.num_in
               /\ devBuf.msgdigbuf = loc.loaded
        /\ loc.verify_mac_params # NULL =>
               /\ loc.verify_mac_params.mode
                      = BitOr(BitOr(args.mode, VERIFY_MODE_SOURCE_MSGDIGBUF),
                              VERIFY_MODE_MAC_FLAG)
               /\ loc.verify_mac_params.key_id = args.param2
               /\ loc.verify_mac_params.signature = args.signature
               /\ loc.verify_mac_params.msg_dig_buf = loc.loaded
        /\ InSeq("Verify", cmds) =>
               /\ loc.verify_mac_params # NULL
               /\ sentPkt.param1 = loc.verify_mac_params.mode
               /\ sentPkt.param2 = loc.verify_mac_params.key_id
               /\ SubSeq(sentPkt.data, 1, ATCA_SIG_SIZE) = loc.verify_mac_params.signature
               /\ loc.dev_msg = loc.verify_mac_params.msg_dig_buf

C22_Witness ==
    /\ fn = "calib_verify_stored_mac"
    /\ pc = "done"
    /\ devtype = ATECC508A
    /\ cmds = <<"Nonce", "Verify">>
    /\ loc.host_mac # UNINIT
    /\ devBuf.msgdigbuf = Message \o NumIn32
    /\ sentPkt.param1 = BitOr(BitOr(VERIFY_MODE_STORED, VERIFY_MODE_SOURCE_MSGDIGBUF),
                              VERIFY_MODE_MAC_FLAG)
    /\ sentPkt.param2 = KeySlot

(* C23: a call of calib_verify_stored_with_tempkey hands the executor one   *)
(* command, the Verify command in Stored mode with the TempKey source, on   *)
(* every device variant (none when an argument is absent or no packet is    *)
(* to be had), and never a Nonce command: the device buffers are after the  *)
(* call what they were before it, and the Verify command ran against the    *)
(* message the caller had placed in TempKey.                                *)
C23_TempKeyVerifyOnly ==
    [][(pc = "idle" /\ fn' = "calib_verify_stored_with_tempkey") =>
          /\ pc' = "done"
          /\ devBuf' = devBuf
          /\ cmds' \in {<<>>, <<"Verify">>}
          /\ (cmds' = <<>>) <=>
                 \/ args'.device = NULL
                 \/ args'.is_verified = NULL
                 \/ args'.signature = NULL
                 \/ ret' = ATCA_ALLOC_FAILURE
          /\ cmds' = <<"Verify">> =>
                 /\ sentPkt'.opcode = "Verify"
                 /\ sentPkt'.param1 = VERIFY_MODE_STORED
                 /\ BitAnd(sentPkt'.param1, VERIFY_MODE_SOURCE_MSGDIGBUF) = 0
                 /\ sentPkt'.param2 = args'.param2
                 /\ loc'.dev_msg = devBuf.tempkey]_vars

C23_Witness ==
    /\ Returned("calib_verify_stored_with_tempkey")
    /\ devtype = ATECC608
    /\ cmds = <<"Verify">>
    /\ sentPkt.param1 = VERIFY_MODE_STORED
    /\ devBuf.tempkey = Message
    /\ loc.dev_msg = Message

(* C24: when calib_packet_alloc fails inside calib_secureboot or            *)
(* calib_verify, that call returns ATCA_ALLOC_FAILURE, it hands nothing to  *)
(* the executor, and no packet is given back that was not obtained; a call  *)
(* returns ATCA_ALLOC_FAILURE only for that reason.                         *)
C24_AllocFailure ==
    /\ allocFails <= 1
    /\ allocFails > 0 =>
           /\ loc.cmd_status = ATCA_ALLOC_FAILURE
           /\ allocs = 0
           /\ frees = 0
           /\ ~InSeq("SecureBoot", cmds)
           /\ ~InSeq("Verify", cmds)
           /\ sentPkt = NoPacket
           /\ overrun = FALSE
           /\ pc = "done"
           /\ ret = ATCA_ALLOC_FAILURE
    /\ (fn \in {"calib_secureboot", "calib_verify"} /\ allocFails > 0) =>
           /\ cmds = <<>>
           /\ callerMac = MacBefore
    /\ loc.cmd_status = ATCA_ALLOC_FAILURE => allocFails = 1

(* The allocator fails in a build where the size check had already set      *)
(* status.                                                                  *)
C24_Witness ==
    /\ Returned("calib_verify")
    /\ VerifyExternalTooSmall
    /\ VerifyModeOf(args.mode) = VERIFY_MODE_EXTERNAL
    /\ VerifyArgsValid
    /\ allocFails = 1
    /\ ret = ATCA_ALLOC_FAILURE
    /\ cmds = <<>>
    /\ frees = 0

(* The entry points that report a verification flag.                        *)
FlagFns == {"calib_secureboot_mac"} \cup VerifyMacFns \cup WrapperFns

(* C25: when an entry point that reports a verification flag is called with *)
(* a non-null is_verified and returns a status other than Success, the      *)
(* caller's is_verified is false on return, whatever it held before the     *)
(* call and whichever check or step failed, argument validation included.   *)
C25_FlagFalseOnFailure ==
    (/\ fn \in FlagFns
     /\ pc = "done"
     /\ args.is_verified # NULL
     /\ ret # ATCA_SUCCESS) => is_verified = FALSE

(* The same statement for the calls that got past the argument checks, and  *)
(* what the rejected ones leave behind.                                     *)
FlagFalseOnFailure_PastChecks ==
    (/\ fn \in FlagFns
     /\ pc = "done"
     /\ args.is_verified # NULL
     /\ ret # ATCA_SUCCESS) =>
        IF ret = ATCA_BAD_PARAM /\ log = <<>>
        THEN is_verified = args.iv_before
        ELSE is_verified = FALSE

FlagFalseOnFailure_StaleTrue ==
    /\ Returned("calib_verify_extern")
    /\ args.is_verified # NULL
    /\ args.signature = NULL
    /\ args.iv_before = TRUE
    /\ ret = ATCA_BAD_PARAM
    /\ is_verified = TRUE

(* C26: calib_secureboot_mac and the MAC-qualified verify report            *)
(* is_verified = true only when the response of that call's command carried *)
(* a MAC (its count declares one, so the local mac buffer was written) and  *)
(* that MAC equals the host MAC; the comparison never reads a mac buffer    *)
(* that no step of the call has written.                                    *)
C26_VerifiedOnlyWithDeviceMac ==
    fn \in {"calib_secureboot_mac"} \cup VerifyMacFns =>
        /\ InSeq("memcmp", log) => (RspHasMac(loc.rsp) /\ loc.mac # UNINIT)
        /\ (pc = "done" /\ ret = ATCA_SUCCESS /\ is_verified) =>
               /\ RspHasMac(loc.rsp)
               /\ RspMac(loc.rsp) = loc.host_mac

(* The command succeeded with a status-only response, the comparison read   *)
(* the unwritten buffer and the flag came out true.                         *)
C26_UnwrittenMacVerified ==
    /\ Returned("calib_secureboot_mac")
    /\ ret = ATCA_SUCCESS
    /\ loc.cmd_status = ATCA_SUCCESS
    /\ loc.rsp = NoMacRsp
    /\ loc.mac = UNINIT
    /\ InSeq("memcmp", log)
    /\ is_verified = TRUE

====
